---- MODULE Spec2Model ----
(***************************************************************************)
(* TransPose / TransActionH (lib/models/transaction_h.py): the multi-      *)
(* branch high-resolution backbone, its construction-time validation, the  *)
(* tensor shapes of the forward pass, the skeleton-angle features and the  *)
(* weight initialisation.  Tensors are modelled by their shapes            *)
(* [c, h, w]; layers by the list of primitive operations they hold.        *)
(* Python's 0-based list indices are 1-based sequence indices here.        *)
(***************************************************************************)
EXTENDS Integers, Sequences, FiniteSets, TLC

(***************************************************************************)
(* Bounds of the model.                                                    *)
(***************************************************************************)
\* the largest NUM_BRANCHES / list length a HighResolutionModule is built with
MaxBranches == 3

\* channel widths the configuration lists are drawn from
ChannelChoices == {2, 4}

\* numbers of blocks per branch
BlockChoices == {1, 2}

\* spatial sizes of branch 0 used to exercise the fuse layers
FuseSizes == {4, 8, 12}

(***************************************************************************)
(* Shapes and primitive layers.                                            *)
(***************************************************************************)
RECURSIVE Pow2(_)
Pow2(k) == IF k <= 0 THEN 1 ELSE 2 * Pow2(k - 1)

\* a tensor [batch, c, h, w] without its batch dimension
Shape(c, h, w) == [c |-> c, h |-> h, w |-> w]

\* the outcome of an operation PyTorch refuses (channel or size mismatch)
ErrShape == [c |-> 0, h |-> 0, w |-> 0]

IsErr(x) == x.c = 0

\* output length of nn.Conv2d / nn.MaxPool2d along one axis
ConvOut(n, k, s, p) == ((n + 2 * p - k) \div s) + 1

\* one primitive operation of an nn.Sequential
Op(op, cin, cout, k, s, p) ==
    [op |-> op, cin |-> cin, cout |-> cout, k |-> k, s |-> s, p |-> p]

Conv2d(cin, cout, k, s, p) == Op("conv", cin, cout, k, s, p)
BatchNorm2d(c) == Op("bn", c, c, 1, 1, 0)
ReLU == Op("relu", 0, 0, 1, 1, 0)
Upsample(scale) == Op("up", 0, 0, 1, scale, 0)
MaxPool2d(k, s, p) == Op("pool", 0, 0, k, s, p)
AdaptiveAvgPool2d == Op("adaptive", 0, 0, 1, 1, 0)
\* torch.flatten(x, 1) followed by nn.Linear(cin, cout)
Linear(cin, cout) == Op("linear", cin, cout, 1, 1, 0)

\* a layer slot: None, or an nn.Sequential of operations
None == [none |-> TRUE, ops |-> <<>>]
Sequential(ops) == [none |-> FALSE, ops |-> ops]

ApplyOp(o, x) ==
    IF IsErr(x) THEN ErrShape
    ELSE IF o.op = "conv"
    THEN IF x.c # o.cin \/ x.h + 2 * o.p < o.k \/ x.w + 2 * o.p < o.k
         THEN ErrShape
         ELSE Shape(o.cout, ConvOut(x.h, o.k, o.s, o.p), ConvOut(x.w, o.k, o.s, o.p))
    ELSE IF o.op = "bn"
    THEN IF x.c # o.cin THEN ErrShape ELSE x
    ELSE IF o.op = "up"
    THEN Shape(x.c, x.h * o.s, x.w * o.s)
    ELSE IF o.op = "pool"
    THEN IF x.h + 2 * o.p < o.k \/ x.w + 2 * o.p < o.k
         THEN ErrShape
         ELSE Shape(x.c, ConvOut(x.h, o.k, o.s, o.p), ConvOut(x.w, o.k, o.s, o.p))
    ELSE IF o.op = "adaptive"
    THEN Shape(x.c, 1, 1)
    ELSE IF o.op = "linear"
    THEN IF x.c * x.h * x.w # o.cin THEN ErrShape ELSE Shape(o.cout, 1, 1)
    ELSE x

RECURSIVE ApplyOps(_, _)
ApplyOps(ops, x) ==
    IF ops = <<>> THEN x ELSE ApplyOps(Tail(ops), ApplyOp(Head(ops), x))

\* calling a layer slot; calling None is a TypeError
ApplyLayer(layer, x) == IF layer.none THEN ErrShape ELSE ApplyOps(layer.ops, x)

\* elementwise sum of two tensors of the same shape
AddShapes(a, b) == IF IsErr(a) \/ IsErr(b) \/ a # b THEN ErrShape ELSE a

(***************************************************************************)
(* Residual blocks.                                                        *)
(***************************************************************************)
expansion(blk) == IF blk = "BASIC" THEN 1 ELSE 4

blocks_dict == {"BASIC", "BOTTLENECK"}

\* a BasicBlock / Bottleneck as built: stride 1 inside the branches
Block(blk, inplanes, planes, downsample) ==
    [block |-> blk, inplanes |-> inplanes, planes |-> planes, downsample |-> downsample]

BlockForward(b, x) ==
    LET out == expansion(b.block) * b.planes
        residual == IF b.downsample.none THEN x ELSE ApplyLayer(b.downsample, x)
    IN  IF IsErr(x) \/ x.c # b.inplanes THEN ErrShape
        ELSE AddShapes(Shape(out, x.h, x.w), residual)

RECURSIVE BranchForward(_, _)
BranchForward(bs, x) ==
    IF bs = <<>> THEN x ELSE BranchForward(Tail(bs), BlockForward(Head(bs), x))

(***************************************************************************)
(* HighResolutionModule: construction.                                     *)
(***************************************************************************)
NoError == "no error"

\* mutation: the NUM_INCHANNELS comparison is lost
check_branches_NoInchannels(nb, nblocks, ninch, nch) ==
    IF nb # Len(nblocks) THEN "NUM_BRANCHES <> NUM_BLOCKS"
    ELSE IF nb # Len(nch) THEN "NUM_BRANCHES <> NUM_CHANNELS"
    ELSE NoError

\* the ValueError message, or NoError when the three lengths agree
check_branches(nb, nblocks, ninch, nch) ==
    IF nb # Len(nblocks) THEN "NUM_BRANCHES <> NUM_BLOCKS"
    ELSE IF nb # Len(nch) THEN "NUM_BRANCHES <> NUM_CHANNELS"
    ELSE IF nb # Len(ninch) THEN "NUM_BRANCHES <> NUM_INCHANNELS"
    ELSE NoError

\* the blocks of branch i, built from the channel list as it stands
make_one_branch(i, blk, nblocks, nch, ninch) ==
    LET out == nch[i] * expansion(blk)
        downsample == IF ninch[i] # out
                      THEN Sequential(<<Conv2d(ninch[i], out, 1, 1, 0), BatchNorm2d(out)>>)
                      ELSE None
        more == IF nblocks[i] > 1 THEN nblocks[i] - 1 ELSE 0
    IN  <<Block(blk, ninch[i], nch[i], downsample)>>
        \o [b \in 1..more |-> Block(blk, out, nch[i], None)]

\* mutation: _make_one_branch leaves self.num_inchannels as it was
inchannels_after_branches_Unchanged(nb, blk, nch, ninch) == ninch

\* self.num_inchannels after _make_one_branch ran for every branch
inchannels_after_branches(nb, blk, nch, ninch) ==
    [i \in 1..nb |-> nch[i] * expansion(blk)]

make_branches(nb, blk, nblocks, nch, ninch) ==
    [i \in 1..nb |-> make_one_branch(i, blk, nblocks, nch, ninch)]

\* mutation: the last convolution of a downsampling chain has stride 1
down_chain_LastStride1(i, j, ninch) ==
    LET conv(k) == IF k = i - j - 1
                   THEN <<Conv2d(ninch[j], ninch[i], 3, 1, 1), BatchNorm2d(ninch[i])>>
                   ELSE <<Conv2d(ninch[j], ninch[j], 3, 2, 1), BatchNorm2d(ninch[j]), ReLU>>
        F[k \in 0..(i - j)] == IF k = 0 THEN <<>> ELSE F[k - 1] \o conv(k - 1)
    IN  Sequential(F[i - j])

\* the chain of i - j stride-2 3x3 convolutions from branch j down to branch i
down_chain(i, j, ninch) ==
    LET conv(k) == IF k = i - j - 1
                   THEN <<Conv2d(ninch[j], ninch[i], 3, 2, 1), BatchNorm2d(ninch[i])>>
                   ELSE <<Conv2d(ninch[j], ninch[j], 3, 2, 1), BatchNorm2d(ninch[j]), ReLU>>
        F[k \in 0..(i - j)] == IF k = 0 THEN <<>> ELSE F[k - 1] \o conv(k - 1)
    IN  Sequential(F[i - j])

\* mutation: the 1x1 convolution of an upsampling layer keeps branch j's width
fuse_layer_KeepWidth(i, j, ninch) ==
    IF j > i
    THEN Sequential(<<Conv2d(ninch[j], ninch[j], 1, 1, 0), BatchNorm2d(ninch[j]),
                      Upsample(Pow2(j - i))>>)
    ELSE IF j = i THEN None
    ELSE down_chain(i, j, ninch)

\* the layer carrying branch j into output i
fuse_layer(i, j, ninch) ==
    IF j > i
    THEN Sequential(<<Conv2d(ninch[j], ninch[i], 1, 1, 0), BatchNorm2d(ninch[i]),
                      Upsample(Pow2(j - i))>>)
    ELSE IF j = i THEN None
    ELSE down_chain(i, j, ninch)

\* self.fuse_layers; <<>> stands for the None of a single-branch module
make_fuse_layers(nb, ninch, mso, fus) ==
    IF nb = 1 THEN <<>>
    ELSE [i \in 1..(IF mso THEN nb ELSE 1) |->
            [j \in 1..nb |-> IF ~fus /\ i # 1 THEN None ELSE fuse_layer(i, j, ninch)]]

(***************************************************************************)
(* HighResolutionModule: the built module and its forward pass.            *)
(***************************************************************************)
\* HighResolutionModule(...): the attributes __init__ leaves, or its ValueError
HighResolutionModule(nb, blk, nblocks, ninch, nch, mso, fus) ==
    LET err == check_branches(nb, nblocks, ninch, nch)
        after == IF err = NoError THEN inchannels_after_branches(nb, blk, nch, ninch) ELSE ninch
    IN  [error |-> err,
         num_branches |-> nb,
         fusion |-> fus,
         multi_scale_output |-> mso,
         num_inchannels |-> after,
         branches |-> IF err = NoError THEN make_branches(nb, blk, nblocks, nch, ninch) ELSE <<>>,
         fuse_layers |-> IF err = NoError THEN make_fuse_layers(nb, after, mso, fus) ELSE <<>>]

\* a list of feature maps, or the exception that ended the call
Maps(xs) == [error |-> FALSE, maps |-> xs]

Raised == [error |-> TRUE, maps |-> <<>>]

AnyErr(xs) == \E k \in DOMAIN xs : IsErr(xs[k])

\* lines 459-465: output i of the fusion, from the branch outputs xs
fuse_sum(mod, xs, i) ==
    LET term(j) == IF i = j THEN xs[j] ELSE ApplyLayer(mod.fuse_layers[i][j], xs[j])
        F[j \in 1..mod.num_branches] ==
            IF j = 1 THEN term(1) ELSE AddShapes(F[j - 1], term(j))
    IN  F[mod.num_branches]

\* HighResolutionModule.forward
hrm_forward(mod, xin) ==
    IF Len(xin) < mod.num_branches THEN Raised
    ELSE IF mod.num_branches = 1
    THEN LET out == <<BranchForward(mod.branches[1], xin[1])>>
         IN  IF AnyErr(out) THEN Raised ELSE Maps(out)
    ELSE LET xs == [k \in 1..Len(xin) |->
                       IF k <= mod.num_branches
                       THEN BranchForward(mod.branches[k], xin[k]) ELSE xin[k]]
             out == [i \in 1..Len(mod.fuse_layers) |->
                       IF mod.fusion \/ i = 1 THEN fuse_sum(mod, xs, i) ELSE xs[i]]
         IN  IF AnyErr(xs) \/ AnyErr(out) THEN Raised ELSE Maps(out)

\* one term of a fusion sum: the branch it comes from, whether a fuse layer
\* carried it, and its shape
Term(j, fused, shape) == [branch |-> j, fused |-> fused, shape |-> shape]

\* mutation: the non-fusing path sums into every output, like the fusing one
output_fuses_Always(mod, i) == TRUE

\* lines 456 and 466-477: whether output i (1-based) is a fusion sum
output_fuses(mod, i) == mod.fusion \/ i = 1

\* lines 459-464, 468-473: the term branch j contributes to output i
fuse_term(mod, xs, i, j) ==
    IF i = j THEN Term(j, FALSE, xs[j])
    ELSE Term(j, TRUE, ApplyLayer(mod.fuse_layers[i][j], xs[j]))

\* lines 457-477: per output the terms summed, in order, and whether relu is
\* applied; an output that is not a sum is the branch output itself
forward_terms(mod, xs) ==
    [i \in 1..Len(mod.fuse_layers) |->
        IF output_fuses(mod, i)
        THEN [relu |-> TRUE,
              terms |-> [j \in 1..mod.num_branches |-> fuse_term(mod, xs, i, j)]]
        ELSE [relu |-> FALSE, terms |-> <<Term(i, FALSE, xs[i])>>]]

\* the sum of the terms of one output
RECURSIVE SumTerms(_)
SumTerms(terms) ==
    IF Len(terms) = 1 THEN terms[1].shape
    ELSE AddShapes(SumTerms(SubSeq(terms, 1, Len(terms) - 1)), terms[Len(terms)].shape)

\* HighResolutionModule.forward of a multi-branch module, with the terms of
\* every output
hrm_forward_terms(mod, xin) ==
    LET xs == [k \in 1..Len(xin) |->
                  IF k <= mod.num_branches
                  THEN BranchForward(mod.branches[k], xin[k]) ELSE xin[k]]
        outs == forward_terms(mod, xs)
        maps == [i \in 1..Len(outs) |-> SumTerms(outs[i].terms)]
    IN  IF AnyErr(xs) THEN [error |-> TRUE, branches |-> xs, outputs |-> <<>>, maps |-> <<>>]
        ELSE [error |-> AnyErr(maps), branches |-> xs, outputs |-> outs, maps |-> maps]

(***************************************************************************)
(* TransActionH: construction.                                             *)
(***************************************************************************)
\* the largest NUM_MODULES of a stage
MaxModules == 2

\* lines 697-711: the stride-2 chain that makes new branch i from the last old one
transition_chain(pre, cur, i) ==
    LET count == i - Len(pre)
        inch == pre[Len(pre)]
        conv(j) == LET outch == IF j = count THEN cur[i] ELSE inch
                   IN  <<Conv2d(inch, outch, 3, 2, 1), BatchNorm2d(outch), ReLU>>
        F[j \in 0..count] == IF j = 0 THEN <<>> ELSE F[j - 1] \o conv(j)
    IN  Sequential(F[count])

\* _make_transition_layer
make_transition_layer(pre, cur) ==
    [i \in 1..Len(cur) |->
        IF i <= Len(pre)
        THEN IF cur[i] # pre[i]
             THEN Sequential(<<Conv2d(pre[i], cur[i], 3, 1, 1), BatchNorm2d(cur[i]), ReLU>>)
             ELSE None
        ELSE transition_chain(pre, cur, i)]

\* mutation: fusion is disabled in every module of a stage built with fusion=False
stage_flags_AllModules(mso, fus, i, num_modules) ==
    [defined |-> mso,
     reset_multi_scale_output |-> TRUE,
     reset_fusion |-> fus]

\* lines 758-763: the flags module i (0-based) of num_modules is built with;
\* reset_multi_scale_output is assigned only when multi_scale_output is True
stage_flags(mso, fus, i, num_modules) ==
    [defined |-> mso,
     reset_multi_scale_output |-> TRUE,
     reset_fusion |-> ~(~fus /\ i = num_modules - 1)]

\* _make_stage: the modules, the channel list returned, and the exception if any
make_stage(layer_config, ninch, mso, fus) ==
    LET num_modules == layer_config.NUM_MODULES
        blk == layer_config.BLOCK
        step(acc, i) ==
            LET fl == stage_flags(mso, fus, i, num_modules)
                mod == HighResolutionModule(layer_config.NUM_BRANCHES, blk,
                                            layer_config.NUM_BLOCKS, acc.num_inchannels,
                                            layer_config.NUM_CHANNELS,
                                            fl.reset_multi_scale_output, fl.reset_fusion)
            IN  IF acc.error # NoError THEN acc
                ELSE IF ~fl.defined
                THEN [acc EXCEPT !.error = "UnboundLocalError"]
                ELSE IF mod.error # NoError
                THEN [acc EXCEPT !.error = "ValueError"]
                ELSE [error |-> NoError,
                      modules |-> Append(acc.modules, mod),
                      num_inchannels |-> mod.num_inchannels]
        F[i \in 0..num_modules] ==
            IF i = 0 THEN [error |-> NoError, modules |-> <<>>, num_inchannels |-> ninch]
            ELSE step(F[i - 1], i - 1)
    IN  F[num_modules]

\* lines 510-514, 524-528: NUM_CHANNELS[i] * block.expansion
stage_channels(layer_config) ==
    [i \in 1..Len(layer_config.NUM_CHANNELS) |->
        layer_config.NUM_CHANNELS[i] * expansion(layer_config.BLOCK)]

\* _make_position_embedding: the length of pos_embedding (0 stands for None)
position_embedding_length(w, h, pe_type) ==
    IF pe_type = "none" THEN 0 ELSE (h \div 4) * (w \div 4)

\* the largest d_model an embedding is made for
MaxDModel == 8

\* an attribute not assigned yet
Unset == [set |-> FALSE, none |-> FALSE, shape |-> <<>>, requires_grad |-> FALSE]

\* self.pos_embedding = None
NoEmbedding == [set |-> TRUE, none |-> TRUE, shape |-> <<>>, requires_grad |-> FALSE]

\* nn.Parameter(tensor of this shape, requires_grad)
Parameter(shape, requires_grad) ==
    [set |-> TRUE, none |-> FALSE, shape |-> shape, requires_grad |-> requires_grad]

\* line 655
one_direction_feats(d_model) == d_model \div 2

\* _make_sine_position_embedding: the sizes of the sine ([0::2]) and cosine
\* ([1::2]) parts of one direction, the channels of pos_y and pos_x after
\* torch.stack(..., dim=4).flatten(3), and the shape returned; torch.stack
\* refuses parts of different sizes
make_sine_position_embedding(d_model, h, w) ==
    LET n == one_direction_feats(d_model)
        sin_size == (n + 1) \div 2
        cos_size == n \div 2
    IN  IF sin_size # cos_size
        THEN [error |-> "RuntimeError", sin_size |-> sin_size, cos_size |-> cos_size,
              row_channels |-> 0, column_channels |-> 0, shape |-> <<>>]
        ELSE [error |-> "none", sin_size |-> sin_size, cos_size |-> cos_size,
              row_channels |-> sin_size * 2, column_channels |-> sin_size * 2,
              shape |-> <<h * w, 1, sin_size * 2 + sin_size * 2>>]

\* lines 576-582
final_layer(d_model, num_joints, kernel) ==
    Sequential(<<Conv2d(d_model, num_joints, kernel, 1, IF kernel = 3 THEN 1 ELSE 0)>>)

\* lines 500-507: conv1, bn1, relu, conv2, bn2, relu, layer1 (four Bottlenecks, 64 -> 256)
stem ==
    Sequential(<<Conv2d(3, 64, 3, 2, 1), BatchNorm2d(64), ReLU,
                 Conv2d(64, 64, 3, 2, 1), BatchNorm2d(64), ReLU>>)

layer1 ==
    <<Block("BOTTLENECK", 64, 64,
            Sequential(<<Conv2d(64, 256, 1, 1, 0), BatchNorm2d(256)>>)),
      Block("BOTTLENECK", 256, 64, None),
      Block("BOTTLENECK", 256, 64, None),
      Block("BOTTLENECK", 256, 64, None)>>

\* TransActionH.__init__: the attributes forward reads
TransActionH(cfg) ==
    LET s2 == make_stage(cfg.STAGE2, stage_channels(cfg.STAGE2), TRUE, TRUE)
        s3 == make_stage(cfg.STAGE3, stage_channels(cfg.STAGE3), TRUE, FALSE)
    IN  [error |-> IF s2.error # NoError THEN s2.error ELSE s3.error,
         transition1 |-> make_transition_layer(<<256>>, stage_channels(cfg.STAGE2)),
         stage2 |-> s2.modules,
         transition2 |-> make_transition_layer(s2.num_inchannels, stage_channels(cfg.STAGE3)),
         stage3 |-> s3.modules,
         reduce |-> Sequential(<<Conv2d(s3.num_inchannels[1], cfg.DIM_MODEL, 1, 1, 0)>>),
         pos_length |-> position_embedding_length(cfg.IMAGE_SIZE[1], cfg.IMAGE_SIZE[2],
                                                  cfg.POS_EMBEDDING),
         final_layer |-> final_layer(cfg.DIM_MODEL, cfg.NUM_JOINTS, cfg.FINAL_CONV_KERNEL)]

(***************************************************************************)
(* get_pose_vectors.  Joint ids, list positions and array slots are        *)
(* 0-based as in the source; arrays are functions on 0..N-1.  Confidences  *)
(* are in hundredths.  Joint positions are taken on one grid line, so that *)
(* a normalised difference is again an integer vector.                     *)
(***************************************************************************)
\* the largest batch size
MaxBatch == 2

\* `>= 0.4`, in hundredths
ConfThreshold == 40

NumJoints == 17

\* joints_of_limbs
joints_of_limbs == [p \in 0..12 |-> IF p = 0 THEN 0 ELSE p + 4]

NumLimbJoints == 13

\* np.zeros((bs, 13 * 6, 2))
NumVectors == NumLimbJoints * 6

\* np.zeros((bs, int(78 * 77 / 2)))
NumAngles == (78 * 77) \div 2

\* nn.Linear(3003, NUM_CLASSES): in_features of action_skeleton_branch
SkeletonInFeatures == 3003

Abs(a) == IF a < 0 THEN 0 - a ELSE a

Minus(u, v) == <<u[1] - v[1], u[2] - v[2]>>

\* np.linalg.norm of an axis-parallel vector
Norm(d) == IF d[2] = 0 THEN Abs(d[1]) ELSE Abs(d[2])

\* d / np.linalg.norm(d) of an axis-parallel non-zero vector
Normalized(d) == <<d[1] \div Norm(d), d[2] \div Norm(d)>>

\* np.inner
Inner(u, v) == u[1] * v[1] + u[2] * v[2]

\* mutation: the inner loop starts at the outer element itself, [n:]
slice_after_Inclusive(n, len) == [first |-> n, count |-> len - n]

\* seq[(n + 1):] of a list of length len: its first position and its length
slice_after(n, len) == [first |-> n + 1, count |-> IF len > n + 1 THEN len - n - 1 ELSE 0]

\* line 69: the gate of a limb vector; n is the position of joint i in the list
limb_confident(mv, n, i, j) == mv[n] >= ConfThreshold /\ mv[j] >= ConfThreshold

\* the arrays and idx while a loop runs; error: a write outside the array
LoopState(arr, vis, idxv, err) == [arr |-> arr, visits |-> vis, idx |-> idxv, error |-> err]

\* idx += 1, counted for the slot it now names
Visit(vis, k) == IF k \in DOMAIN vis THEN [vis EXCEPT ![k] = @ + 1] ELSE vis

\* lines 67-72: the inner loop over joints_of_limbs[(n + 1):] from its m-th element on
RECURSIVE limb_inner(_, _, _, _, _, _)
limb_inner(st, pr, mv, n, sl, m) ==
    IF m >= sl.count \/ st.error THEN st
    ELSE LET i == joints_of_limbs[n]
             j == joints_of_limbs[sl.first + m]
             k == st.idx + 1
             d == Minus(pr[i], pr[j])
             vis == Visit(st.visits, k)
         IN  IF limb_confident(mv, n, i, j) /\ Norm(d) # 0
             THEN IF k \in DOMAIN st.arr
                  THEN limb_inner(LoopState([st.arr EXCEPT ![k] = Normalized(d)], vis, k, FALSE),
                                  pr, mv, n, sl, m + 1)
                  ELSE LoopState(st.arr, vis, k, TRUE)
             ELSE limb_inner(LoopState(st.arr, vis, k, FALSE), pr, mv, n, sl, m + 1)

\* lines 75-77: the inner loop over vectors[batch][(n + 1):] from its m-th element on
RECURSIVE angle_inner(_, _, _, _, _)
angle_inner(st, vec, n, sl, m) ==
    IF m >= sl.count \/ st.error THEN st
    ELSE LET k == st.idx + 1
             vis == Visit(st.visits, k)
         IN  IF k \in DOMAIN st.arr
             THEN angle_inner(LoopState([st.arr EXCEPT ![k] = Inner(vec[n], vec[sl.first + m])],
                                        vis, k, FALSE),
                              vec, n, sl, m + 1)
             ELSE LoopState(st.arr, vis, k, TRUE)

\* sample configurations: positions on a line, one confidence pattern each
Conf(low, lowval) == [k \in 0..(NumJoints - 1) |-> IF k \in low THEN lowval ELSE 90]

OnRow == [k \in 0..(NumJoints - 1) |-> <<k, 0>>]

OnColumn == [k \in 0..(NumJoints - 1) |-> <<3, 2 * k>>]

Paired == [k \in 0..(NumJoints - 1) |-> <<k \div 2, 0>>]

Sample(pr, mv) == [preds |-> pr, maxvals |-> mv]

Samples ==
    << Sample(OnRow, Conf({}, 0)),
       Sample(OnRow, Conf({5}, 39)),
       Sample(OnColumn, Conf({1}, 10)),
       Sample(Paired, Conf({0, 16}, 39)),
       Sample(OnColumn, Conf({0, 9}, 40)),
       Sample(OnRow, Conf(0..16, 0)) >>

\* the batches of bs consecutive sample configurations
Batches(n) == {[b \in 0..(n - 1) |-> Samples[((c + b) % Len(Samples)) + 1]] : c \in 0..(Len(Samples) - 1)}

(***************************************************************************)
(* TransActionH.forward: the shapes.                                       *)
(***************************************************************************)
\* lines 792-796: the inputs of stage 2
transition1_forward(model, nb, x0) ==
    LET out == [i \in 1..nb |->
                   IF i > Len(model.transition1) THEN ErrShape
                   ELSE IF ~model.transition1[i].none
                   THEN ApplyLayer(model.transition1[i], x0)
                   ELSE x0]
    IN  IF AnyErr(out) THEN Raised ELSE Maps(out)

\* line 802: the map a transition layer of stage 3 is applied to, y_list[-1]
transition2_source(ys, i) == ys[Len(ys)]

\* lines 799-804: the inputs of stage 3
transition2_forward(model, nb, ys) ==
    LET out == [i \in 1..nb |->
                   IF i > Len(model.transition2) THEN ErrShape
                   ELSE IF ~model.transition2[i].none
                   THEN ApplyLayer(model.transition2[i], transition2_source(ys, i))
                   ELSE IF i > Len(ys) THEN ErrShape
                   ELSE ys[i]]
    IN  IF AnyErr(out) THEN Raised ELSE Maps(out)

\* with_pos_embed on a [length, bs, c] sequence: tensor + pos broadcasts only
\* equal lengths or a length of 1; 0 stands for pos = None
with_pos_embed(length, pos_length) ==
    IF pos_length = 0 \/ pos_length = length \/ pos_length = 1 THEN length
    ELSE IF length = 1 THEN pos_length
    ELSE -1

\* a TransformerEncoder of width dm on the flattened map x0 with embedding pos;
\* the attention needs query, key and value of one length
encoder_forward(dm, pos_dm, x0, pos_length) ==
    IF IsErr(x0) \/ x0.c # dm THEN ErrShape
    ELSE IF pos_length # 0 /\ pos_dm # dm THEN ErrShape
    ELSE IF with_pos_embed(x0.h * x0.w, pos_length) # x0.h * x0.w THEN ErrShape
    ELSE x0

\* lines 807-816: reduce, global_encoder, final_layer
pose_forward(model, cfg, ys) ==
    LET x0 == ApplyLayer(model.reduce, ys[1])
        enc == encoder_forward(cfg.DIM_MODEL, cfg.DIM_MODEL, x0, model.pos_length)
    IN  [x |-> x0, y |-> ApplyLayer(model.final_layer, enc)]

\* lines 583-593: action_encoder_branch_part1 and part2
action_encoder_branch(cfg) ==
    Sequential(<<Conv2d(cfg.DIM_MODEL, cfg.DIM_MODEL * 2, 1, 1, 0), BatchNorm2d(192), ReLU,
                 MaxPool2d(3, 2, 1), AdaptiveAvgPool2d,
                 Linear(cfg.DIM_MODEL * 2, cfg.NUM_CLASSES)>>)

\* lines 594-599
action_hrnet_features_branch_96 ==
    Sequential(<<Conv2d(96, 192, 1, 1, 0), BatchNorm2d(192), ReLU,
                 MaxPool2d(3, 2, 1), AdaptiveAvgPool2d>>)

\* lines 601-606
action_hrnet_features_branch_192 ==
    Sequential(<<Conv2d(192, 192, 3, 2, 1), BatchNorm2d(192), ReLU,
                 MaxPool2d(3, 2, 1), AdaptiveAvgPool2d>>)

\* lines 608-612
action_hrnet_features_branch_concat(cfg) ==
    Sequential(<<Linear(cfg.DIM_MODEL * 4, 200), Linear(200, cfg.NUM_CLASSES)>>)

\* lines 614-620
action_skeleton_branch(cfg) == Sequential(<<Linear(SkeletonInFeatures, cfg.NUM_CLASSES)>>)

\* lines 821-825: r
action_forward(model, cfg, x0) ==
    ApplyLayer(action_encoder_branch(cfg),
               encoder_forward(cfg.DIM_MODEL_ACTION, cfg.DIM_MODEL, x0, model.pos_length))

\* lines 828-834: z, t and concat
features_forward(cfg, ys) ==
    IF Len(ys) < 3 THEN ErrShape
    ELSE LET z == ApplyLayer(action_hrnet_features_branch_96, ys[2])
             t == ApplyLayer(action_hrnet_features_branch_192, ys[3])
         IN  IF IsErr(z) \/ IsErr(t) THEN ErrShape
             ELSE ApplyLayer(action_hrnet_features_branch_concat(cfg), Shape(z.c + t.c, 1, 1))

\* lines 818-819: get_max_preds and get_pose_vectors read joints 0..16 of y
skeleton_forward(y0) ==
    IF IsErr(y0) \/ y0.c < NumJoints THEN ErrShape ELSE Shape(NumAngles, 1, 1)

(***************************************************************************)
(* TransActionH.forward: what each value is computed from.  A value is     *)
(* abstracted by the set of the inputs, parameters and named intermediate  *)
(* values it was computed from.                                            *)
(***************************************************************************)
NoDeps == [input |-> {}, x |-> {}, y |-> {}, skeleton_vecs |-> {}, r |-> {},
           concat |-> {}, q |-> {}, returned |-> <<>>]

\* lines 783-805
deps_backbone(d) == [d EXCEPT !.input = {"input", "backbone"}]

\* lines 807-816
deps_pose(d) ==
    [d EXCEPT !.x = d.input \cup {"reduce"},
              !.y = d.input \cup {"reduce", "pos_embedding", "global_encoder", "final_layer"}]

\* lines 818-819
deps_skeleton(d) == [d EXCEPT !.skeleton_vecs = d.y \cup {"skeleton_vecs"}]

\* lines 821-825
deps_action(d) ==
    [d EXCEPT !.r = d.x \cup {"pos_embedding", "global_encoder_action",
                              "action_encoder_branch", "r"}]

\* lines 828-834
deps_features(d) == [d EXCEPT !.concat = d.input \cup {"action_hrnet_features_branch"}]

\* line 837
deps_skeleton_head(d) ==
    [d EXCEPT !.q = d.skeleton_vecs \cup {"action_skeleton_branch", "q"}]

\* mutation: line 840 is live and its r is returned
deps_return_Weighted(d) ==
    [d EXCEPT !.returned = <<d.y, d.r \cup d.concat \cup d.q \cup {"a1", "a2", "a3"}>>]

\* line 846: return y, concat
deps_return(d) == [d EXCEPT !.returned = <<d.y, d.concat>>]

(***************************************************************************)
(* TransActionH.init_weights and get_pose_net.  A state dict is modelled   *)
(* by the set of its entry names; a name is a sequence of dot-separated    *)
(* components.                                                             *)
(***************************************************************************)
\* entry names of the model's own state_dict()
ModelNames == {<<"conv1", "weight">>, <<"stage2", "weight">>, <<"final_layer", "weight">>}

\* entry names a checkpoint file may hold
CheckpointNames == {<<"conv1", "weight">>, <<"stage2", "weight">>, <<"fc", "weight">>}

\* values of cfg.MODEL.EXTRA.PRETRAINED_LAYERS
PretrainedLayersChoices == {<<>>, <<"*">>, <<"conv1">>, <<"conv1", "stage2">>, <<"fc", "*">>}

\* values of cfg.MODEL.PRETRAINED and of the argument `pretrained`
Paths == {"", "models/pretrained.pth", "models/absent.pth"}

Elems(seq) == {seq[k] : k \in DOMAIN seq}

\* mutation: `or` binds before `and` in the condition of lines 877-878
select_entry_OrFirst(name, layers, own) ==
    IF layers = <<>> THEN "IndexError"
    ELSE IF name[1] \in Elems(layers) /\ (name \in own \/ layers[1] = "*") THEN "select"
    ELSE "skip"

\* line 877-878, for one entry: "select", "skip", or "IndexError" from layers[0]
select_entry(name, layers, own) ==
    IF name[1] \in Elems(layers) /\ name \in own THEN "select"
    ELSE IF layers = <<>> THEN "IndexError"
    ELSE IF layers[1] = "*" THEN "select"
    ELSE "skip"

\* lines 875-879: existing_state_dict
existing_state_dict(ckpt, layers, own) ==
    {name \in ckpt : select_entry(name, layers, own) = "select"}

\* lines 871-885: what init_weights does after the random initialisation
init_weights_outcome(path, files, ckpt, layers, own) ==
    IF path \in files
    THEN IF \E name \in ckpt : select_entry(name, layers, own) = "IndexError"
         THEN "IndexError" ELSE "loaded"
    ELSE IF path # "" THEN "ValueError"
    ELSE "not loaded"

\* line 901: the path get_pose_net hands to init_weights
get_pose_net_pretrained(cfg_pretrained) == ""

(***************************************************************************)
(* State.                                                                  *)
(***************************************************************************)
VARIABLES
    \* HighResolutionModule.__init__: position, arguments and attributes
    hrm_pc, num_branches, block, num_blocks, num_inchannels, num_channels,
    multi_scale_output, fusion, error_msg, branches, fuse_layers,
    \* HighResolutionModule.forward: its argument x and what it computes
    hrm_x, hrm_out,
    \* get_pose_vectors: position, arguments, locals, and how often each slot
    \* was the value of idx
    gpv_pc, bs, preds, maxvals, vectors, angles, batch, idx, gpv_n,
    vec_visits, angle_visits,
    \* get_pose_net / init_weights: position, entry point, arguments and
    \* configuration, the files that exist and the checkpoint's entries, the
    \* origin of each entry of the model's state dict, the entries handed to
    \* load_state_dict, the exception raised
    net_pc, entry_point, is_train, INIT_WEIGHTS, PRETRAINED, pretrained,
    pretrained_layers, files, pretrained_state_dict, state_dict, loaded_state_dict,
    exception,
    \* TransActionH(cfg) and forward(x): position, configuration, the built
    \* model, the input, the locals x, x_list, y_list, y, concat (shapes), the
    \* stage and module the pass has come to, what each value was computed
    \* from, and the step that raised
    fwd_pc, cfg, model, image, x_feat, x_list, y_list, y_heat, concat, stage, stage_i,
    deps, fwd_error,
    \* _make_position_embedding(w, h, d_model, pe_type): position, arguments, the
    \* attributes pe_h, pe_w and pos_embedding, and the exception raised
    pe_pc, pe_args, pe_h, pe_w, pos_embedding, pe_error,
    \* AverageMeter: position, the object's fields val, avg, sum, count, and the
    \* (val, n) of every update since the last reset
    am_pc, meter, am_calls,
    \* _make_stage: position, arguments (and the call site), the loop variable i,
    \* the list modules, the local num_inchannels, and the exception raised
    stg_pc, stg_args, stg_i, stg_modules, stg_inchannels, stg_error,
    \* the list objects of _make_stage by identity, and the list each module
    \* keeps as self.num_inchannels
    stg_heap, stg_refs,
    \* TransformerEncoder.forward (lines 171-195): position, the encoder's attributes and
    \* arguments, the locals output, pos and atten_maps_list, the layer calls made so far,
    \* the returned value and the exception raised
    enc_pc, enc_args, enc_output, enc_pos, atten_maps_list, enc_calls, enc_result, enc_error,
    \* TransformerEncoderLayer (lines 213-288): position, the constructor and forward arguments,
    \* self.activation, the forward variant taken, the self_attn call, the tensors on the two
    \* residual paths, the returned value and the exception raised
    lyr_pc, lyr_args, lyr_activation, lyr_path, lyr_attn, lyr_residual, lyr_result, lyr_error,
    \* the training and validation loops of core/function.py: position, the function
    \* called, config, the batches of the loader, writer_dict, the model's mode, the batch
    \* index i, the calls made for the current batch, the batch whose output the local
    \* output / output1 holds and the one the accuracy was computed from, the meters losses
    \* and acc, validate's idx, all_preds and all_boxes (per row the batches that wrote it),
    \* the scalars written, the exception raised
    run_pc, run_fn, run_cfg, run_loader, writer_dict, model_mode, run_i, run_events, run_output, run_used, run_losses, run_acc, val_idx, all_preds, all_boxes, scalars, run_error

hrmVars == <<hrm_pc, num_branches, block, num_blocks, num_inchannels, num_channels,
             multi_scale_output, fusion, error_msg, branches, fuse_layers, hrm_x, hrm_out>>

gpvVars == <<gpv_pc, bs, preds, maxvals, vectors, angles, batch, idx, gpv_n,
             vec_visits, angle_visits>>

netVars == <<net_pc, entry_point, is_train, INIT_WEIGHTS, PRETRAINED, pretrained,
             pretrained_layers, files, pretrained_state_dict, state_dict, loaded_state_dict,
             exception>>

fwdVars == <<fwd_pc, cfg, model, image, x_feat, x_list, y_list, y_heat, concat, stage,
             stage_i, deps, fwd_error>>

peVars == <<pe_pc, pe_args, pe_h, pe_w, pos_embedding, pe_error>>

amVars == <<am_pc, meter, am_calls>>

stgVars == <<stg_pc, stg_args, stg_i, stg_modules, stg_inchannels, stg_error,
             stg_heap, stg_refs>>

encVars == <<enc_pc, enc_args, enc_output, enc_pos, atten_maps_list, enc_calls, enc_result, enc_error>>

lyrVars == <<lyr_pc, lyr_args, lyr_activation, lyr_path, lyr_attn, lyr_residual, lyr_result, lyr_error>>

runVars == <<run_pc, run_fn, run_cfg, run_loader, writer_dict, model_mode, run_i, run_events, run_output, run_used, run_losses, run_acc, val_idx, all_preds, all_boxes, scalars, run_error>>

vars == <<hrmVars, gpvVars, netVars, fwdVars, peVars, amVars, stgVars, encVars, lyrVars, runVars>>

\* everything outside one component
notHRM == <<gpvVars, netVars, fwdVars, peVars, amVars, stgVars, encVars, lyrVars, runVars>>

notGPV == <<hrmVars, netVars, fwdVars, peVars, amVars, stgVars, encVars, lyrVars, runVars>>

notNET == <<hrmVars, gpvVars, fwdVars, peVars, amVars, stgVars, encVars, lyrVars, runVars>>

notFWD == <<hrmVars, gpvVars, netVars, peVars, amVars, stgVars, encVars, lyrVars, runVars>>

notPE == <<hrmVars, gpvVars, netVars, fwdVars, amVars, stgVars, encVars, lyrVars, runVars>>

notAM == <<hrmVars, gpvVars, netVars, fwdVars, peVars, stgVars, encVars, lyrVars, runVars>>

notSTG == <<hrmVars, gpvVars, netVars, fwdVars, peVars, amVars, encVars, lyrVars, runVars>>

notENC == <<hrmVars, gpvVars, netVars, fwdVars, peVars, amVars, stgVars, lyrVars, runVars>>

notLYR == <<hrmVars, gpvVars, netVars, fwdVars, peVars, amVars, stgVars, encVars, runVars>>

notRUN == <<hrmVars, gpvVars, netVars, fwdVars, peVars, amVars, stgVars, encVars, lyrVars>>

(***************************************************************************)
(* HighResolutionModule.__init__ as a process: _check_branches, then       *)
(* _make_branches, then _make_fuse_layers.                                 *)
(***************************************************************************)
\* lists of 1..n elements of S
ListsUpTo(S, n) == UNION {[1..k -> S] : k \in 1..n}

\* lists of 1..n equal elements of S
ConstListsUpTo(S, n) == {[i \in 1..k |-> b] : k \in 1..n, b \in S}

HRM_Idle ==
    /\ hrm_pc = "idle"
    /\ num_branches = 0
    /\ block = "BASIC"
    /\ num_blocks = <<>>
    /\ num_inchannels = <<>>
    /\ num_channels = <<>>
    /\ multi_scale_output = TRUE
    /\ fusion = TRUE
    /\ error_msg = NoError
    /\ branches = <<>>
    /\ fuse_layers = <<>>
    /\ hrm_x = <<>>
    /\ hrm_out = <<>>

HRM_Init ==
    /\ hrm_pc = "new"
    /\ num_branches \in 1..MaxBranches
    /\ block \in blocks_dict
    /\ num_blocks \in ConstListsUpTo(BlockChoices, MaxBranches)
    /\ num_inchannels \in ListsUpTo(ChannelChoices, MaxBranches)
    /\ num_channels \in ListsUpTo(ChannelChoices, MaxBranches)
    /\ multi_scale_output \in BOOLEAN
    /\ fusion \in BOOLEAN
    /\ error_msg = NoError
    /\ branches = <<>>
    /\ fuse_layers = <<>>
    /\ hrm_x = <<>>
    /\ hrm_out = <<>>

HRM_check_branches ==
    /\ hrm_pc = "new"
    /\ error_msg' = check_branches(num_branches, num_blocks, num_inchannels, num_channels)
    /\ hrm_pc' = IF error_msg' = NoError THEN "checked" ELSE "raised"
    /\ UNCHANGED <<num_branches, block, num_blocks, num_inchannels, num_channels,
                   multi_scale_output, fusion, branches, fuse_layers>>
    /\ UNCHANGED <<hrm_x, hrm_out>>
    /\ UNCHANGED notHRM

HRM_make_branches ==
    /\ hrm_pc = "checked"
    /\ branches' = make_branches(num_branches, block, num_blocks, num_channels, num_inchannels)
    /\ num_inchannels' = inchannels_after_branches(num_branches, block, num_channels, num_inchannels)
    /\ hrm_pc' = "branches"
    /\ UNCHANGED <<num_branches, block, num_blocks, num_channels,
                   multi_scale_output, fusion, error_msg, fuse_layers>>
    /\ UNCHANGED <<hrm_x, hrm_out>>
    /\ UNCHANGED notHRM

HRM_make_fuse_layers ==
    /\ hrm_pc = "branches"
    /\ fuse_layers' = make_fuse_layers(num_branches, num_inchannels, multi_scale_output, fusion)
    /\ hrm_pc' = "built"
    /\ UNCHANGED <<num_branches, block, num_blocks, num_inchannels, num_channels,
                   multi_scale_output, fusion, error_msg, branches>>
    /\ UNCHANGED <<hrm_x, hrm_out>>
    /\ UNCHANGED notHRM

\* sizes of branch 0's input map
InputSizes == {4, 6, 8, 12}

\* the maps handed to forward: branch k with the channels its first block was
\* built for, at the size k - 1 stride-2 3x3 convolutions leave of n
RECURSIVE HalvedSize(_, _)
HalvedSize(n, k) == IF k = 0 THEN n ELSE HalvedSize(ConvOut(n, 3, 2, 1), k - 1)

InputMaps(n) ==
    [k \in 1..num_branches |->
        Shape(branches[k][1].inplanes, HalvedSize(n, k - 1), HalvedSize(n, k - 1))]

\* lines 447-479, for a module with more than one branch
HRM_forward ==
    /\ hrm_pc = "built"
    /\ num_branches > 1
    /\ \E n \in InputSizes :
           /\ hrm_x' = InputMaps(n)
           /\ hrm_out' = hrm_forward_terms(
                  [num_branches |-> num_branches, fusion |-> fusion,
                   branches |-> branches, fuse_layers |-> fuse_layers], hrm_x')
    /\ hrm_pc' = IF hrm_out'.error THEN "forward_raised" ELSE "forwarded"
    /\ UNCHANGED <<num_branches, block, num_blocks, num_inchannels, num_channels,
                   multi_scale_output, fusion, error_msg, branches, fuse_layers>>
    /\ UNCHANGED notHRM

HRM_Next ==
    \/ HRM_check_branches
    \/ HRM_make_branches
    \/ HRM_make_fuse_layers
    \/ HRM_forward

GPV_Idle ==
    /\ gpv_pc = "idle"
    /\ bs = 0
    /\ preds = <<>>
    /\ maxvals = <<>>
    /\ vectors = <<>>
    /\ angles = <<>>
    /\ batch = 0
    /\ idx = -1
    /\ gpv_n = 0
    /\ vec_visits = <<>>
    /\ angle_visits = <<>>

NET_Idle ==
    /\ net_pc = "idle"
    /\ entry_point = "none"
    /\ is_train = FALSE
    /\ INIT_WEIGHTS = FALSE
    /\ PRETRAINED = ""
    /\ pretrained = ""
    /\ pretrained_layers = <<>>
    /\ files = {}
    /\ pretrained_state_dict = {}
    /\ state_dict = <<>>
    /\ loaded_state_dict = {}
    /\ exception = "none"

FWD_Idle ==
    /\ fwd_pc = "idle"
    /\ cfg = <<>>
    /\ model = <<>>
    /\ image = ErrShape
    /\ x_feat = ErrShape
    /\ x_list = <<>>
    /\ y_list = <<>>
    /\ y_heat = ErrShape
    /\ concat = ErrShape
    /\ stage = 0
    /\ stage_i = 0
    /\ deps = NoDeps
    /\ fwd_error = "none"

PE_Idle ==
    /\ pe_pc = "idle"
    /\ pe_args = <<>>
    /\ pe_h = -1
    /\ pe_w = -1
    /\ pos_embedding = <<>>
    /\ pe_error = "none"

AM_Idle ==
    /\ am_pc = "idle"
    /\ meter = <<>>
    /\ am_calls = <<>>

STG_Idle ==
    /\ stg_pc = "idle"
    /\ stg_args = <<>>
    /\ stg_i = 0
    /\ stg_modules = <<>>
    /\ stg_inchannels = 0
    /\ stg_error = NoError
    /\ stg_heap = <<>>
    /\ stg_refs = <<>>

ENC_Idle ==
    /\ enc_pc = "idle"
    /\ enc_args = Unset
    /\ enc_output = Unset
    /\ enc_pos = FALSE
    /\ atten_maps_list = <<>>
    /\ enc_calls = <<>>
    /\ enc_result = Unset
    /\ enc_error = NoError

LYR_Idle ==
    /\ lyr_pc = "idle"
    /\ lyr_args = Unset
    /\ lyr_activation = ""
    /\ lyr_path = ""
    /\ lyr_attn = Unset
    /\ lyr_residual = <<>>
    /\ lyr_result = Unset
    /\ lyr_error = NoError

RUN_Idle ==
    /\ run_pc = "idle"
    /\ run_fn = ""
    /\ run_cfg = Unset
    /\ run_loader = <<>>
    /\ writer_dict = Unset
    /\ model_mode = ""
    /\ run_i = 0
    /\ run_events = <<>>
    /\ run_output = 0
    /\ run_used = 0
    /\ run_losses = Unset
    /\ run_acc = Unset
    /\ val_idx = 0
    /\ all_preds = <<>>
    /\ all_boxes = <<>>
    /\ scalars = <<>>
    /\ run_error = NoError

InitHRM == HRM_Init /\ GPV_Idle /\ NET_Idle /\ FWD_Idle /\ PE_Idle /\ AM_Idle /\ STG_Idle /\ ENC_Idle /\ LYR_Idle /\ RUN_Idle

NextHRM == HRM_Next

SpecHRM == InitHRM /\ [][NextHRM]_vars

(***************************************************************************)
(* C1. Constructing a HighResolutionModule raises ValueError exactly when  *)
(* num_branches differs from len(num_blocks), len(num_channels) or         *)
(* len(num_inchannels); the first mismatch in that order decides the       *)
(* message; nothing is built before the check, and nothing after a raise.  *)
(***************************************************************************)
C1_Mismatch ==
    \/ num_branches # Len(num_blocks)
    \/ num_branches # Len(num_channels)
    \/ num_branches # Len(num_inchannels)

C1_CheckBranchesFirst ==
    /\ hrm_pc # "new" => (hrm_pc = "raised" <=> C1_Mismatch)
    /\ hrm_pc = "raised" =>
         /\ num_branches # Len(num_blocks) => error_msg = "NUM_BRANCHES <> NUM_BLOCKS"
         /\ (num_branches = Len(num_blocks) /\ num_branches # Len(num_channels))
              => error_msg = "NUM_BRANCHES <> NUM_CHANNELS"
         /\ (num_branches = Len(num_blocks) /\ num_branches = Len(num_channels))
              => error_msg = "NUM_BRANCHES <> NUM_INCHANNELS"
    /\ hrm_pc \in {"new", "raised"} => branches = <<>> /\ fuse_layers = <<>>
    /\ hrm_pc \in {"checked", "branches", "built"} => ~C1_Mismatch /\ error_msg = NoError

\* the third comparison alone decides: a ValueError about NUM_INCHANNELS
C1_Witness ==
    /\ hrm_pc = "raised"
    /\ num_branches = Len(num_blocks)
    /\ num_branches = Len(num_channels)
    /\ num_branches # Len(num_inchannels)

(***************************************************************************)
(* C16. In a multi-branch module without fusion, output 0 is the ReLU of   *)
(* the sum of branch 0's output and of every other branch's output carried *)
(* by its fuse layer to branch 0's resolution, every later output is the   *)
(* branch's own output with nothing added, and the fuse layers of the      *)
(* later rows are None; with fusion every output i is the ReLU of the sum  *)
(* over all branches, each carried to resolution i.                        *)
(***************************************************************************)
C16_Forwarded == hrm_pc \in {"forwarded", "forward_raised"} /\ hrm_out.outputs # <<>>

C16_SumOK(i) ==
    LET out == hrm_out.outputs[i]
    IN  /\ out.relu
        /\ Len(out.terms) = num_branches
        /\ \A j \in 1..num_branches :
             /\ out.terms[j].branch = j
             /\ out.terms[j].fused = (j # i)
             /\ out.terms[j].shape =
                    IF j = i THEN hrm_out.branches[j]
                    ELSE ApplyLayer(fuse_layers[i][j], hrm_out.branches[j])
             /\ hrm_pc = "forwarded" => out.terms[j].shape = hrm_out.branches[i]
        /\ hrm_pc = "forwarded" => hrm_out.maps[i] = hrm_out.branches[i]

C16_FusionFlag ==
    C16_Forwarded =>
        /\ Len(hrm_out.outputs) = IF multi_scale_output THEN num_branches ELSE 1
        /\ \A i \in 1..Len(hrm_out.outputs) :
             IF fusion \/ i = 1
             THEN C16_SumOK(i)
             ELSE /\ hrm_out.outputs[i] =
                        [relu |-> FALSE, terms |-> <<Term(i, FALSE, hrm_out.branches[i])>>]
                  /\ hrm_out.maps[i] = hrm_out.branches[i]
                  /\ \A j \in 1..num_branches : fuse_layers[i][j].none

\* a three-branch module without fusion: a sum of three terms, then two
\* branches passed through
C16_Witness ==
    /\ hrm_pc = "forwarded"
    /\ num_branches = 3 /\ ~fusion /\ multi_scale_output
    /\ Len(hrm_out.outputs[1].terms) = 3
    /\ hrm_out.outputs[1].terms[3].fused
    /\ ~hrm_out.outputs[3].relu
    /\ hrm_out.maps[3] # hrm_out.maps[1]

(***************************************************************************)
(* C19. In a fusing module whose branch 0 has a height and width divisible *)
(* by 2^(num_branches - 1) and whose branch k has branch 0's size divided  *)
(* by 2^k, every term summed into output i has branch i's height and       *)
(* width.                                                                  *)
(***************************************************************************)
C19_PowerOfTwoSizes ==
    LET xs == hrm_out.branches
    IN  /\ xs[1].h % Pow2(num_branches - 1) = 0
        /\ xs[1].w % Pow2(num_branches - 1) = 0
        /\ \A k \in 1..num_branches :
             /\ xs[k].h * Pow2(k - 1) = xs[1].h
             /\ xs[k].w * Pow2(k - 1) = xs[1].w

C19_TermSizes ==
    (C16_Forwarded /\ fusion /\ C19_PowerOfTwoSizes) =>
        \A i \in 1..Len(hrm_out.outputs) :
            \A j \in 1..num_branches :
                /\ hrm_out.outputs[i].terms[j].shape.h = hrm_out.branches[i].h
                /\ hrm_out.outputs[i].terms[j].shape.w = hrm_out.branches[i].w

\* three branches of sizes 12, 6 and 3: a two-step chain and a x4 upsampling
C19_Witness ==
    /\ hrm_pc = "forwarded"
    /\ num_branches = 3 /\ fusion /\ multi_scale_output
    /\ C19_PowerOfTwoSizes
    /\ hrm_out.branches[1].h = 12
    /\ hrm_out.outputs[3].terms[1].shape.h = 3
    /\ hrm_out.outputs[1].terms[3].shape.h = 12

(***************************************************************************)
(* C7. In a built module, wherever a fuse layer is kept (every row of a    *)
(* fusing module, row 0 otherwise), the layer from branch j to output i is *)
(* None for j = i; for j > i a 1x1 convolution to num_inchannels[i]        *)
(* followed by upsampling by 2^(j-i); for j < i exactly i-j stride-2 3x3   *)
(* convolutions, all but the last keeping num_inchannels[j], the last      *)
(* giving num_inchannels[i]; applied to branch j's map it yields           *)
(* num_inchannels[i] channels at 2^|i-j| times larger / smaller size.      *)
(***************************************************************************)
ConvsOf(layer) == SelectSeq(layer.ops, LAMBDA o : o.op = "conv")

UpsOf(layer) == SelectSeq(layer.ops, LAMBDA o : o.op = "up")

C7_LayerOK(i, j) ==
    LET L == fuse_layers[i][j]
        cs == ConvsOf(L)
        d == i - j
    IN  /\ j = i => L.none
        /\ j > i =>
             /\ ~L.none
             /\ Len(cs) = 1
             /\ cs[1].k = 1 /\ cs[1].s = 1 /\ cs[1].p = 0
             /\ cs[1].cin = num_inchannels[j] /\ cs[1].cout = num_inchannels[i]
             /\ Len(UpsOf(L)) = 1 /\ UpsOf(L)[1].s = Pow2(j - i)
             /\ L.ops[Len(L.ops)].op = "up"
             /\ \A n \in FuseSizes :
                  ApplyLayer(L, Shape(num_inchannels[j], n, n))
                    = Shape(num_inchannels[i], n * Pow2(j - i), n * Pow2(j - i))
        /\ j < i =>
             /\ ~L.none
             /\ Len(cs) = d
             /\ Len(UpsOf(L)) = 0
             /\ \A k \in 1..d :
                  /\ cs[k].k = 3 /\ cs[k].s = 2 /\ cs[k].p = 1
                  /\ cs[k].cin = num_inchannels[j]
                  /\ cs[k].cout = IF k = d THEN num_inchannels[i] ELSE num_inchannels[j]
             /\ \A n \in FuseSizes :
                  ApplyLayer(L, Shape(num_inchannels[j], n * Pow2(d), n * Pow2(d)))
                    = Shape(num_inchannels[i], n, n)

Zeros(n, z) == [k \in 0..(n - 1) |-> z]

GPV_Init ==
    /\ gpv_pc = "sample"
    /\ bs \in 1..MaxBatch
    /\ \E inp \in Batches(bs) :
         /\ preds = [b \in 0..(bs - 1) |-> inp[b].preds]
         /\ maxvals = [b \in 0..(bs - 1) |-> inp[b].maxvals]
    /\ vectors = Zeros(bs, Zeros(NumVectors, <<0, 0>>))
    /\ angles = Zeros(bs, Zeros(NumAngles, 0))
    /\ batch = 0
    /\ idx = -1
    /\ gpv_n = 0
    /\ vec_visits = Zeros(bs, Zeros(NumVectors, 0))
    /\ angle_visits = Zeros(bs, Zeros(NumAngles, 0))

\* line 64-65: the next sample, or the return
GPV_next_sample ==
    /\ gpv_pc = "sample"
    /\ IF batch < bs
       THEN gpv_pc' = "vectors" /\ idx' = -1 /\ gpv_n' = 0
       ELSE gpv_pc' = "done" /\ UNCHANGED <<idx, gpv_n>>
    /\ UNCHANGED <<bs, preds, maxvals, vectors, angles, batch, vec_visits, angle_visits>>
    /\ UNCHANGED notGPV

\* lines 66-72: one pass of `for n, i in enumerate(joints_of_limbs[:-1])`
GPV_limb_row ==
    /\ gpv_pc = "vectors"
    /\ gpv_n < NumLimbJoints - 1
    /\ LET r == limb_inner(LoopState(vectors[batch], vec_visits[batch], idx, FALSE),
                           preds[batch], maxvals[batch], gpv_n,
                           slice_after(gpv_n, NumLimbJoints), 0)
       IN  /\ idx' = r.idx
           /\ vectors' = [vectors EXCEPT ![batch] = r.arr]
           /\ vec_visits' = [vec_visits EXCEPT ![batch] = r.visits]
           /\ gpv_pc' = IF r.error THEN "IndexError" ELSE "vectors"
           /\ gpv_n' = IF r.error THEN gpv_n ELSE gpv_n + 1
    /\ UNCHANGED <<bs, preds, maxvals, angles, batch, angle_visits>>
    /\ UNCHANGED notGPV

\* line 73
GPV_reset_idx ==
    /\ gpv_pc = "vectors"
    /\ gpv_n = NumLimbJoints - 1
    /\ idx' = -1
    /\ gpv_n' = 0
    /\ gpv_pc' = "angles"
    /\ UNCHANGED <<bs, preds, maxvals, vectors, angles, batch, vec_visits, angle_visits>>
    /\ UNCHANGED notGPV

\* lines 74-77: one pass of `for n, v1 in enumerate(vectors[batch][:-1])`
GPV_angle_row ==
    /\ gpv_pc = "angles"
    /\ gpv_n < NumVectors - 1
    /\ LET r == angle_inner(LoopState(angles[batch], angle_visits[batch], idx, FALSE),
                            vectors[batch], gpv_n, slice_after(gpv_n, NumVectors), 0)
       IN  /\ idx' = r.idx
           /\ angles' = [angles EXCEPT ![batch] = r.arr]
           /\ angle_visits' = [angle_visits EXCEPT ![batch] = r.visits]
           /\ gpv_pc' = IF r.error THEN "IndexError" ELSE "angles"
           /\ gpv_n' = IF r.error THEN gpv_n ELSE gpv_n + 1
    /\ UNCHANGED <<bs, preds, maxvals, vectors, batch, vec_visits>>
    /\ UNCHANGED notGPV

\* the end of the body of `for batch in range(bs)`
GPV_end_sample ==
    /\ gpv_pc = "angles"
    /\ gpv_n = NumVectors - 1
    /\ batch' = batch + 1
    /\ gpv_pc' = "sample"
    /\ UNCHANGED <<bs, preds, maxvals, vectors, angles, idx, gpv_n, vec_visits, angle_visits>>
    /\ UNCHANGED notGPV

GPV_Next ==
    \/ GPV_next_sample
    \/ GPV_limb_row
    \/ GPV_reset_idx
    \/ GPV_angle_row
    \/ GPV_end_sample

InitGPV == GPV_Init /\ HRM_Idle /\ NET_Idle /\ FWD_Idle /\ PE_Idle /\ AM_Idle /\ STG_Idle /\ ENC_Idle /\ LYR_Idle /\ RUN_Idle

NextGPV == GPV_Next

SpecGPV == InitGPV /\ [][NextGPV]_vars

(***************************************************************************)
(* get_pose_net(cfg, is_train) and TransActionH.init_weights(pretrained)   *)
(* as a process.  init_weights is entered from get_pose_net or called on a *)
(* constructed model directly.                                             *)
(***************************************************************************)
NET_Init ==
    /\ net_pc = "call"
    /\ entry_point \in {"get_pose_net", "init_weights"}
    /\ is_train \in BOOLEAN
    /\ INIT_WEIGHTS \in BOOLEAN
    /\ PRETRAINED \in Paths
    /\ pretrained \in Paths
    /\ pretrained_layers \in PretrainedLayersChoices
    /\ files \in SUBSET {"models/pretrained.pth"}
    /\ pretrained_state_dict \in SUBSET CheckpointNames
    /\ state_dict = [name \in ModelNames |-> "unset"]
    /\ loaded_state_dict = {}
    /\ exception = "none"
    \* get_pose_net takes no path argument; a direct call takes no cfg switches
    /\ entry_point = "get_pose_net" => pretrained = ""
    /\ entry_point = "init_weights" => ~is_train /\ ~INIT_WEIGHTS /\ PRETRAINED = ""

\* lines 889-901: construct the model; decide on init_weights(pretrained='')
NET_get_pose_net ==
    /\ net_pc = "call"
    /\ entry_point = "get_pose_net"
    /\ IF is_train /\ INIT_WEIGHTS
       THEN /\ pretrained' = get_pose_net_pretrained(PRETRAINED)
            /\ net_pc' = "init_weights"
       ELSE /\ pretrained' = pretrained
            /\ net_pc' = "return"
    /\ UNCHANGED <<entry_point, is_train, INIT_WEIGHTS, PRETRAINED, pretrained_layers,
                   files, pretrained_state_dict, state_dict, loaded_state_dict,
                   exception>>
    /\ UNCHANGED notNET

\* a direct call model.init_weights(pretrained)
NET_call_init_weights ==
    /\ net_pc = "call"
    /\ entry_point = "init_weights"
    /\ net_pc' = "init_weights"
    /\ UNCHANGED <<entry_point, is_train, INIT_WEIGHTS, PRETRAINED, pretrained,
                   pretrained_layers, files, pretrained_state_dict, state_dict, loaded_state_dict,
             exception>>
    /\ UNCHANGED notNET

\* lines 849-885: random initialisation of every module, then the checkpoint
NET_init_weights ==
    /\ net_pc = "init_weights"
    /\ LET out == init_weights_outcome(pretrained, files, pretrained_state_dict,
                                       pretrained_layers, ModelNames)
           chosen == existing_state_dict(pretrained_state_dict, pretrained_layers, ModelNames)
       IN  /\ exception' = IF out \in {"ValueError", "IndexError"} THEN out ELSE "none"
           \* load_state_dict(strict=False) copies the entries the model has
           \* line 882: the dict handed to load_state_dict
           /\ loaded_state_dict' = IF out = "loaded" THEN chosen ELSE {}
           /\ state_dict' = [name \in ModelNames |->
                                IF out = "loaded" /\ name \in chosen
                                THEN "pretrained" ELSE "random"]
           /\ net_pc' = IF out \in {"ValueError", "IndexError"} THEN "raised"
                        ELSE IF entry_point = "get_pose_net" THEN "return"
                        ELSE "done"
    /\ UNCHANGED <<entry_point, is_train, INIT_WEIGHTS, PRETRAINED, pretrained,
                   pretrained_layers, files, pretrained_state_dict>>
    /\ UNCHANGED notNET

\* line 903: return model
NET_return ==
    /\ net_pc = "return"
    /\ net_pc' = "returned"
    /\ UNCHANGED <<entry_point, is_train, INIT_WEIGHTS, PRETRAINED, pretrained,
                   pretrained_layers, files, pretrained_state_dict, state_dict, loaded_state_dict,
             exception>>
    /\ UNCHANGED notNET

NET_Next ==
    \/ NET_get_pose_net
    \/ NET_call_init_weights
    \/ NET_init_weights
    \/ NET_return

InitNET == NET_Init /\ HRM_Idle /\ GPV_Idle /\ FWD_Idle /\ PE_Idle /\ AM_Idle /\ STG_Idle /\ ENC_Idle /\ LYR_Idle /\ RUN_Idle

NextNET == NET_Next

SpecNET == InitNET /\ [][NextNET]_vars

(***************************************************************************)
(* C3. get_pose_net called for training with INIT_WEIGHTS enabled and a    *)
(* configured pretrained path MODEL.PRETRAINED that names no existing file *)
(* ends with a fatal error instead of returning a model.                   *)
(***************************************************************************)
C3_MissingPretrainedIsFatal ==
    (/\ entry_point = "get_pose_net"
     /\ is_train /\ INIT_WEIGHTS
     /\ PRETRAINED # "" /\ PRETRAINED \notin files)
    => net_pc # "returned"

(***************************************************************************)
(* C4. init_weights raises ValueError exactly when the pretrained path is  *)
(* non-empty and not an existing file; with an empty path it neither loads *)
(* weights nor raises; with an existing file it loads the selected entries *)
(* and does not raise.                                                     *)
(***************************************************************************)
C4_Finished == entry_point = "init_weights" /\ net_pc \in {"done", "raised"}

C4_InitWeightsErrors ==
    C4_Finished =>
        /\ exception = "ValueError" <=> (pretrained # "" /\ pretrained \notin files)
        /\ pretrained = "" =>
             /\ exception = "none"
             /\ \A name \in ModelNames : state_dict[name] = "random"
        /\ pretrained \in files =>
             /\ exception = "none"
             /\ \A name \in ModelNames :
                  state_dict[name] = "pretrained" <=>
                      name \in existing_state_dict(pretrained_state_dict,
                                                   pretrained_layers, ModelNames)

(***************************************************************************)
(* TransActionH(cfg) followed by forward(x) as a process, one step per     *)
(* block of the forward pass; an exception ends it.                        *)
(***************************************************************************)
\* IMAGE_SIZE = [w, h]
ImageSizes == {<<16, 13>>, <<32, 16>>, <<32, 32>>}

\* NUM_CHANNELS of the two stages
Stage2Channels == {<<32, 64>>, <<48, 96>>, <<48, 48>>}

Stage3Channels == {<<32, 64>>, <<48, 96>>, <<32, 64, 128>>, <<48, 96, 192>>}

StageConfig(nm, channels) ==
    [NUM_MODULES |-> nm, NUM_BRANCHES |-> Len(channels), BLOCK |-> "BASIC",
     NUM_BLOCKS |-> [i \in 1..Len(channels) |-> 2],
     NUM_CHANNELS |-> channels,
     FUSE_METHOD |-> "SUM"]

Configs ==
    {[IMAGE_SIZE |-> size, POS_EMBEDDING |-> pe, DIM_MODEL |-> dm,
      DIM_MODEL_ACTION |-> 96, NUM_JOINTS |-> NumJoints, NUM_CLASSES |-> 10,
      FINAL_CONV_KERNEL |-> k, STAGE2 |-> s2, STAGE3 |-> s3] :
        size \in ImageSizes,
        pe \in {"none", "learnable", "sine"}, dm \in {64, 96}, k \in {1, 3, 5},
        s2 \in {StageConfig(nm, ch) : nm \in 1..MaxModules, ch \in Stage2Channels},
        s3 \in {StageConfig(nm, ch) : nm \in 1..MaxModules, ch \in Stage3Channels}}

FWD_Init ==
    /\ fwd_pc = "new"
    /\ cfg \in Configs
    \* the data loader resizes every image to IMAGE_SIZE = [w, h]
    /\ image = Shape(3, cfg.IMAGE_SIZE[2], cfg.IMAGE_SIZE[1])
    /\ model = <<>>
    /\ x_feat = ErrShape
    /\ x_list = <<>>
    /\ y_list = <<>>
    /\ y_heat = ErrShape
    /\ concat = ErrShape
    /\ stage = 0
    /\ stage_i = 0
    /\ deps = NoDeps
    /\ fwd_error = "none"

\* the step at fwd_pc raised: nothing else changes
FWD_Raise ==
    /\ fwd_error' = fwd_pc
    /\ fwd_pc' = "raised"

\* TransActionH.__init__
FWD_construct ==
    /\ fwd_pc = "new"
    /\ model' = TransActionH(cfg)
    /\ IF model'.error # NoError
       THEN FWD_Raise
       ELSE fwd_pc' = "stem" /\ UNCHANGED fwd_error
    /\ UNCHANGED <<cfg, image, x_feat, x_list, y_list, y_heat, concat, stage, stage_i, deps>>
    /\ UNCHANGED notFWD

\* lines 783-789
FWD_stem ==
    /\ fwd_pc = "stem"
    /\ LET out == BranchForward(layer1, ApplyLayer(stem, image))
       IN  IF IsErr(out)
           THEN FWD_Raise /\ UNCHANGED <<x_feat, stage>>
           ELSE /\ x_feat' = out
                /\ stage' = 2
                /\ fwd_pc' = "transition"
                /\ UNCHANGED fwd_error
    /\ UNCHANGED <<cfg, model, image, x_list, y_list, y_heat, concat, stage_i, deps>>
    /\ UNCHANGED notFWD

\* lines 791-796 (stage 2) and 799-804 (stage 3)
FWD_transition ==
    /\ fwd_pc = "transition"
    /\ LET out == IF stage = 2
                  THEN transition1_forward(model, cfg.STAGE2.NUM_BRANCHES, x_feat)
                  ELSE transition2_forward(model, cfg.STAGE3.NUM_BRANCHES, y_list)
       IN  IF out.error
           THEN FWD_Raise /\ UNCHANGED <<x_list, stage_i>>
           ELSE /\ x_list' = out.maps
                /\ stage_i' = 0
                /\ fwd_pc' = "stage"
                /\ UNCHANGED fwd_error
    /\ UNCHANGED <<cfg, model, image, x_feat, y_list, y_heat, concat, stage, deps>>
    /\ UNCHANGED notFWD

StageModules == IF stage = 2 THEN model.stage2 ELSE model.stage3

\* lines 797 and 805: the next HighResolutionModule of the stage's nn.Sequential
FWD_stage_module ==
    /\ fwd_pc = "stage"
    /\ stage_i < Len(StageModules)
    /\ LET out == hrm_forward(StageModules[stage_i + 1], x_list)
       IN  IF out.error
           THEN FWD_Raise /\ UNCHANGED <<x_list, stage_i>>
           ELSE /\ x_list' = out.maps
                /\ stage_i' = stage_i + 1
                /\ UNCHANGED <<fwd_pc, fwd_error>>
    /\ UNCHANGED <<cfg, model, image, x_feat, y_list, y_heat, concat, stage, deps>>
    /\ UNCHANGED notFWD

\* lines 797 and 805: y_list is the output of the stage's last module
FWD_stage_done ==
    /\ fwd_pc = "stage"
    /\ stage_i = Len(StageModules)
    /\ y_list' = x_list
    /\ IF stage = 2
       THEN stage' = 3 /\ fwd_pc' = "transition" /\ deps' = deps
       ELSE stage' = stage /\ fwd_pc' = "pose" /\ deps' = deps_backbone(deps)
    /\ UNCHANGED <<cfg, model, image, x_feat, x_list, y_heat, concat, stage_i, fwd_error>>
    /\ UNCHANGED notFWD

\* lines 807-816
FWD_pose ==
    /\ fwd_pc = "pose"
    /\ LET out == pose_forward(model, cfg, y_list)
       IN  IF IsErr(out.y)
           THEN FWD_Raise /\ UNCHANGED <<x_feat, y_heat, deps>>
           ELSE /\ x_feat' = out.x
                /\ y_heat' = out.y
                /\ deps' = deps_pose(deps)
                /\ fwd_pc' = "skeleton"
                /\ UNCHANGED fwd_error
    /\ UNCHANGED <<cfg, model, image, x_list, y_list, concat, stage, stage_i>>
    /\ UNCHANGED notFWD

\* lines 818-819
FWD_skeleton ==
    /\ fwd_pc = "skeleton"
    /\ IF IsErr(skeleton_forward(y_heat))
       THEN FWD_Raise /\ UNCHANGED deps
       ELSE /\ deps' = deps_skeleton(deps)
            /\ fwd_pc' = "action"
            /\ UNCHANGED fwd_error
    /\ UNCHANGED <<cfg, model, image, x_feat, x_list, y_list, y_heat, concat, stage, stage_i>>
    /\ UNCHANGED notFWD

\* lines 821-825
FWD_action ==
    /\ fwd_pc = "action"
    /\ IF IsErr(action_forward(model, cfg, x_feat))
       THEN FWD_Raise /\ UNCHANGED deps
       ELSE /\ deps' = deps_action(deps)
            /\ fwd_pc' = "features"
            /\ UNCHANGED fwd_error
    /\ UNCHANGED <<cfg, model, image, x_feat, x_list, y_list, y_heat, concat, stage, stage_i>>
    /\ UNCHANGED notFWD

\* lines 828-834
FWD_features ==
    /\ fwd_pc = "features"
    /\ LET out == features_forward(cfg, y_list)
       IN  IF IsErr(out)
           THEN FWD_Raise /\ UNCHANGED <<concat, deps>>
           ELSE /\ concat' = out
                /\ deps' = deps_features(deps)
                /\ fwd_pc' = "skeleton_head"
                /\ UNCHANGED fwd_error
    /\ UNCHANGED <<cfg, model, image, x_feat, x_list, y_list, y_heat, stage, stage_i>>
    /\ UNCHANGED notFWD

\* lines 837-846: q, and return y, concat
FWD_return ==
    /\ fwd_pc = "skeleton_head"
    /\ IF IsErr(ApplyLayer(action_skeleton_branch(cfg), skeleton_forward(y_heat)))
       THEN FWD_Raise /\ UNCHANGED deps
       ELSE /\ deps' = deps_return(deps_skeleton_head(deps))
            /\ fwd_pc' = "returned"
            /\ UNCHANGED fwd_error
    /\ UNCHANGED <<cfg, model, image, x_feat, x_list, y_list, y_heat, concat, stage, stage_i>>
    /\ UNCHANGED notFWD

FWD_Next ==
    \/ FWD_construct
    \/ FWD_stem
    \/ FWD_transition
    \/ FWD_stage_module
    \/ FWD_stage_done
    \/ FWD_pose
    \/ FWD_skeleton
    \/ FWD_action
    \/ FWD_features
    \/ FWD_return

InitFWD == FWD_Init /\ HRM_Idle /\ GPV_Idle /\ NET_Idle /\ PE_Idle /\ AM_Idle /\ STG_Idle /\ ENC_Idle /\ LYR_Idle /\ RUN_Idle

NextFWD == FWD_Next

SpecFWD == InitFWD /\ [][NextFWD]_vars

(***************************************************************************)
(* C5. When forward comes to the encoders with a positional embedding, the *)
(* embedding's length (h // 4) * (w // 4) is the number of positions of    *)
(* the flattened map the encoders receive, for every IMAGE_SIZE.           *)
(***************************************************************************)
C5_PosEmbeddingLength ==
    (fwd_pc = "pose" /\ cfg.POS_EMBEDDING # "none")
        => model.pos_length = y_list[1].h * y_list[1].w

(***************************************************************************)
(* C6. Once forward has computed the heatmap y, it has NUM_JOINTS channels *)
(* and a quarter of the input's height and of its width.                   *)
(***************************************************************************)
C6_HeatmapSize ==
    fwd_pc \in {"skeleton", "action", "features", "skeleton_head", "returned"}
        => /\ y_heat.c = cfg.NUM_JOINTS
           /\ y_heat.h * 4 = image.h
           /\ y_heat.w * 4 = image.w

(***************************************************************************)
(* C8. After the transition into a stage and after every module of the     *)
(* stage the feature list has NUM_BRANCHES maps, and branch k's map has    *)
(* branch 0's height and width divided by 2^k.                             *)
(***************************************************************************)
C8_BranchSizes ==
    fwd_pc = "stage"
        => /\ Len(x_list) = (IF stage = 2 THEN cfg.STAGE2 ELSE cfg.STAGE3).NUM_BRANCHES
           /\ \A k \in 1..Len(x_list) :
                  /\ x_list[k].h * Pow2(k - 1) = x_list[1].h
                  /\ x_list[k].w * Pow2(k - 1) = x_list[1].w

(***************************************************************************)
(* C10. What forward returns is computed from neither the skeleton angle   *)
(* features, nor the output r of the action-transformer head, nor the      *)
(* output q of the skeleton head, nor A1, A2, A3; and no value other than  *)
(* q is computed from the skeleton features.                               *)
(***************************************************************************)
C10_Hidden ==
    {"skeleton_vecs", "r", "q", "a1", "a2", "a3", "action_skeleton_branch",
     "global_encoder_action", "action_encoder_branch"}

C10_ReturnIndependent ==
    /\ fwd_pc = "returned"
           => /\ Len(deps.returned) = 2
              /\ deps.returned[1] = deps.y
              /\ (deps.returned[1] \cup deps.returned[2]) \cap C10_Hidden = {}
    /\ \A v \in {deps.input, deps.x, deps.y, deps.r, deps.concat} :
           "skeleton_vecs" \notin v

C10_Witness ==
    /\ fwd_pc = "returned"
    /\ "skeleton_vecs" \in deps.q
    /\ "action_encoder_branch" \in deps.r
    /\ "action_hrnet_features_branch" \in deps.returned[2]

(***************************************************************************)
(* C11. On entry to stage 3, the input of every branch i that stage 2      *)
(* already had is made from stage-2 output i: through transition2[i] when  *)
(* there is one, unchanged otherwise.                                      *)
(***************************************************************************)
C11_ExistingBranchFromOwnOutput ==
    (fwd_pc = "stage" /\ stage = 3 /\ stage_i = 0) =>
        \A i \in 1..Len(y_list) :
            i <= Len(x_list) =>
                x_list[i] = IF model.transition2[i].none
                            THEN y_list[i]
                            ELSE ApplyLayer(model.transition2[i], y_list[i])

(***************************************************************************)
(* C12. Once TransActionH(cfg) is constructed, no layer of the action      *)
(* heads of forward is handed a width it was not built for: neither the    *)
(* action-transformer head nor the stage-3 feature heads raise.            *)
(***************************************************************************)
C12_HeadWidthsAgree ==
    (fwd_pc = "raised" /\ model # <<>> /\ model.error = NoError)
        => fwd_error \notin {"action", "features"}

(***************************************************************************)
(* TransActionH._make_position_embedding as a process: the assertion, the  *)
(* sizes, and the embedding of the requested type.                         *)
(***************************************************************************)
PositionEmbeddingTypes == {"none", "learnable", "sine"}

\* values of pe_type, the last one a type the method does not know
PeTypeChoices == PositionEmbeddingTypes \cup {"cosine"}

PE_Init ==
    /\ pe_pc = "new"
    /\ pe_args \in {[w |-> size[1], h |-> size[2], d_model |-> d, pe_type |-> t] :
                        size \in ImageSizes \cup {<<32, 13>>, <<16, 32>>},
                        d \in 1..MaxDModel, t \in PeTypeChoices}
    /\ pe_h = -1
    /\ pe_w = -1
    /\ pos_embedding = Unset
    /\ pe_error = "none"

\* line 629
PE_assert ==
    /\ pe_pc = "new"
    /\ IF pe_args.pe_type \in PositionEmbeddingTypes
       THEN pe_pc' = "asserted" /\ UNCHANGED pe_error
       ELSE pe_pc' = "raised" /\ pe_error' = "AssertionError"
    /\ UNCHANGED <<pe_args, pe_h, pe_w, pos_embedding>>
    /\ UNCHANGED notPE

\* lines 630-632
PE_none ==
    /\ pe_pc = "asserted"
    /\ pe_args.pe_type = "none"
    /\ pos_embedding' = NoEmbedding
    /\ pe_pc' = "done"
    /\ UNCHANGED <<pe_args, pe_h, pe_w, pe_error>>
    /\ UNCHANGED notPE

\* lines 634-637
PE_size ==
    /\ pe_pc = "asserted"
    /\ pe_args.pe_type # "none"
    /\ pe_h' = pe_args.h \div 4
    /\ pe_w' = pe_args.w \div 4
    /\ pe_pc' = "sized"
    /\ UNCHANGED <<pe_args, pos_embedding, pe_error>>
    /\ UNCHANGED notPE

\* lines 638-641: torch.randn(length, 1, d_model), trainable
PE_learnable ==
    /\ pe_pc = "sized"
    /\ pe_args.pe_type = "learnable"
    /\ pos_embedding' = Parameter(<<pe_h * pe_w, 1, pe_args.d_model>>, TRUE)
    /\ pe_pc' = "done"
    /\ UNCHANGED <<pe_args, pe_h, pe_w, pe_error>>
    /\ UNCHANGED notPE

\* lines 642-646: the sine embedding, requires_grad=False
PE_sine ==
    /\ pe_pc = "sized"
    /\ pe_args.pe_type # "learnable"
    /\ LET pos == make_sine_position_embedding(pe_args.d_model, pe_h, pe_w)
       IN  IF pos.error # "none"
           THEN pe_pc' = "raised" /\ pe_error' = pos.error /\ UNCHANGED pos_embedding
           ELSE /\ pos_embedding' = Parameter(pos.shape, FALSE)
                /\ pe_pc' = "done"
                /\ UNCHANGED pe_error
    /\ UNCHANGED <<pe_args, pe_h, pe_w>>
    /\ UNCHANGED notPE

PE_Next ==
    \/ PE_assert
    \/ PE_none
    \/ PE_size
    \/ PE_learnable
    \/ PE_sine

InitPE == PE_Init /\ HRM_Idle /\ GPV_Idle /\ NET_Idle /\ FWD_Idle /\ AM_Idle /\ STG_Idle /\ ENC_Idle /\ LYR_Idle /\ RUN_Idle

NextPE == PE_Next

SpecPE == InitPE /\ [][NextPE]_vars

(***************************************************************************)
(* C13. _make_position_embedding rejects every type other than 'none',     *)
(* 'learnable' and 'sine' with an AssertionError before it sets any        *)
(* attribute; for 'none' pos_embedding is None; for 'learnable' it is a    *)
(* trainable and for 'sine' a fixed parameter, both with                   *)
(* (h // 4) * (w // 4) rows.                                               *)
(***************************************************************************)
C13_Ended == pe_pc \in {"done", "raised"}

C13_TypesAndLength ==
    C13_Ended =>
        /\ pe_args.pe_type \notin PositionEmbeddingTypes =>
             /\ pe_error = "AssertionError"
             /\ pe_h = -1 /\ pe_w = -1 /\ pos_embedding = Unset
        /\ pe_args.pe_type = "none" => pe_pc = "done" /\ pos_embedding = NoEmbedding
        /\ pe_args.pe_type \in {"learnable", "sine"} =>
             /\ pe_pc = "done"
             /\ ~pos_embedding.none
             /\ pos_embedding.requires_grad = (pe_args.pe_type = "learnable")
             /\ pos_embedding.shape[1] = (pe_args.h \div 4) * (pe_args.w \div 4)

(***************************************************************************)
(* C14. For every d_model the sine embedding has the shape                 *)
(* [pe_h * pe_w, 1, d_model]: d_model // 2 channels for the rows and       *)
(* d_model // 2 for the columns, each from sine and cosine parts of one    *)
(* size.                                                                   *)
(***************************************************************************)
C14_SineShape ==
    (pe_pc \in {"done", "raised"} /\ pe_args.pe_type = "sine") =>
        LET pos == make_sine_position_embedding(pe_args.d_model, pe_h, pe_w)
        IN  /\ pe_pc = "done"
            /\ pos_embedding.shape = <<pe_h * pe_w, 1, pe_args.d_model>>
            /\ pos.row_channels = pe_args.d_model \div 2
            /\ pos.column_channels = pe_args.d_model \div 2
            /\ pos.sin_size = pos.cos_size

(***************************************************************************)
(* AverageMeter (lib/core/function.py).  Values are integers (a loss in    *)
(* hundredths); the quotient sum / count is kept as the fraction it is.    *)
(***************************************************************************)
\* the largest number of updates between two resets
MaxUpdates == 4

\* values passed as val, and as n
MeterValues == {0, 2, 5}

MeterWeights == {0, 1, 3}

\* a / b as an exact fraction, b # 0
Quotient(a, b) == [num |-> a, den |-> b]

\* the number 0 as a fraction
Zero == [num |-> 0, den |-> 1]

\* AverageMeter.reset
meter_reset == [val |-> 0, avg |-> Zero, sum |-> 0, count |-> 0]

\* mutation: the weight n is not applied to the sum
meter_update_Unweighted(m, val, n) ==
    LET s == m.sum + val
        c == m.count + n
    IN  [val |-> val, sum |-> s, count |-> c,
         avg |-> IF c # 0 THEN Quotient(s, c) ELSE Zero]

\* AverageMeter.update
meter_update(m, val, n) ==
    LET s == m.sum + val * n
        c == m.count + n
    IN  [val |-> val, sum |-> s, count |-> c,
         avg |-> IF c # 0 THEN Quotient(s, c) ELSE Zero]

AM_Init ==
    /\ am_pc = "new"
    /\ meter = <<>>
    /\ am_calls = <<>>

\* lines 689-690: __init__ calls reset
AM_init ==
    /\ am_pc = "new"
    /\ meter' = meter_reset
    /\ am_calls' = <<>>
    /\ am_pc' = "ready"
    /\ UNCHANGED notAM

\* lines 692-696
AM_reset ==
    /\ am_pc = "ready"
    /\ meter' = meter_reset
    /\ am_calls' = <<>>
    /\ UNCHANGED am_pc
    /\ UNCHANGED notAM

\* lines 698-702
AM_update ==
    /\ am_pc = "ready"
    /\ Len(am_calls) < MaxUpdates
    /\ \E val \in MeterValues, n \in MeterWeights :
           /\ meter' = meter_update(meter, val, n)
           /\ am_calls' = Append(am_calls, <<val, n>>)
    /\ UNCHANGED am_pc
    /\ UNCHANGED notAM

AM_Next ==
    \/ AM_init
    \/ AM_reset
    \/ AM_update

InitAM == AM_Init /\ HRM_Idle /\ GPV_Idle /\ NET_Idle /\ FWD_Idle /\ PE_Idle /\ STG_Idle /\ ENC_Idle /\ LYR_Idle /\ RUN_Idle

NextAM == AM_Next

SpecAM == InitAM /\ [][NextAM]_vars

(***************************************************************************)
(* C15. After reset and any updates, val is the last value passed (0 after *)
(* a reset), count is the sum of all n, sum the sum of all val * n, and    *)
(* avg is sum / count when count is not 0 and 0 otherwise.                 *)
(***************************************************************************)
RECURSIVE C15_Total(_, _)
C15_Total(calls, weighted) ==
    IF calls = <<>> THEN 0
    ELSE LET c == calls[Len(calls)]
         IN  C15_Total(SubSeq(calls, 1, Len(calls) - 1), weighted)
                 + (IF weighted THEN c[1] * c[2] ELSE c[2])

C15_MeterFields ==
    am_pc = "ready" =>
        /\ meter.val = IF am_calls = <<>> THEN 0 ELSE am_calls[Len(am_calls)][1]
        /\ meter.count = C15_Total(am_calls, FALSE)
        /\ meter.sum = C15_Total(am_calls, TRUE)
        /\ meter.count # 0 =>
               /\ meter.avg.den # 0
               /\ meter.avg.num * meter.count = meter.sum * meter.avg.den
        /\ meter.count = 0 => meter.avg = Zero
        /\ am_calls = <<>> => meter = meter_reset

\* three updates, one of them with weight 0, after which the average is 17 / 4
C15_Witness ==
    /\ am_pc = "ready"
    /\ Len(am_calls) = 3
    /\ am_calls[2][2] = 0
    /\ meter.count = 4
    /\ meter.sum = 17
    /\ meter.avg = Quotient(17, 4)

(***************************************************************************)
(* TransActionH._make_stage as a process: one step per pass of the loop    *)
(* over the modules, then the return.  It is called by __init__ for stage  *)
(* 2 and stage 3 with the flags of lines 520-521 and 535-536, or directly  *)
(* with any flags and any channel list.  Lists are kept by identity: the   *)
(* modules share the list object the caller passed.                        *)
(***************************************************************************)
\* lines 520-521, 535-536: the flags __init__ passes
StageCallFlags(caller) ==
    IF caller = "stage2" THEN {[multi_scale_output |-> TRUE, fusion |-> TRUE]}
    ELSE IF caller = "stage3" THEN {[multi_scale_output |-> TRUE, fusion |-> FALSE]}
    ELSE [multi_scale_output : BOOLEAN, fusion : BOOLEAN]

\* the channel list of the call: __init__ passes NUM_CHANNELS[i] *
\* block.expansion (lines 510-514, 524-528); another caller may pass other
\* widths, one per branch
StageCallInchannels(caller, layer_config) ==
    IF caller \in {"stage2", "stage3"} THEN {stage_channels(layer_config)}
    ELSE {stage_channels(layer_config),
          [i \in 1..layer_config.NUM_BRANCHES |-> 256]}

STG_Init ==
    /\ stg_pc = "loop"
    /\ \E caller \in {"stage2", "stage3", "direct"} :
       \E fl \in StageCallFlags(caller) :
       \E nm \in 1..MaxModules :
       \E ch \in Stage2Channels \cup Stage3Channels :
       \E blk \in blocks_dict :
       \E ninch \in StageCallInchannels(caller, [StageConfig(nm, ch) EXCEPT !.BLOCK = blk]) :
           stg_args = [caller |-> caller,
                       layer_config |-> [StageConfig(nm, ch) EXCEPT !.BLOCK = blk],
                       num_inchannels |-> ninch,
                       multi_scale_output |-> fl.multi_scale_output,
                       fusion |-> fl.fusion]
    /\ stg_i = 0
    /\ stg_modules = <<>>
    \* the argument num_inchannels names the caller's list, object 1
    /\ stg_heap = <<stg_args.num_inchannels>>
    /\ stg_inchannels = 1
    /\ stg_refs = <<>>
    /\ stg_error = NoError

\* lines 744-777: one pass of `for i in range(num_modules)`; the module keeps
\* the list it is given (line 298), _make_one_branch writes into it (lines
\* 357-358) and get_num_inchannels hands it back (line 777)
STG_module ==
    /\ stg_pc = "loop"
    /\ stg_i < stg_args.layer_config.NUM_MODULES
    /\ LET config == stg_args.layer_config
           fl == stage_flags(stg_args.multi_scale_output, stg_args.fusion, stg_i,
                             config.NUM_MODULES)
           mod == HighResolutionModule(config.NUM_BRANCHES, config.BLOCK,
                                       config.NUM_BLOCKS, stg_heap[stg_inchannels],
                                       config.NUM_CHANNELS,
                                       fl.reset_multi_scale_output, fl.reset_fusion)
       IN  IF ~fl.defined
           THEN /\ stg_error' = "UnboundLocalError"
                /\ stg_pc' = "raised"
                /\ UNCHANGED <<stg_i, stg_modules, stg_inchannels, stg_heap, stg_refs>>
           ELSE IF mod.error # NoError
           THEN /\ stg_error' = "ValueError"
                /\ stg_pc' = "raised"
                /\ UNCHANGED <<stg_i, stg_modules, stg_inchannels, stg_heap, stg_refs>>
           ELSE /\ stg_modules' = Append(stg_modules, mod)
                /\ stg_refs' = Append(stg_refs, stg_inchannels)
                /\ stg_heap' = [stg_heap EXCEPT ![stg_inchannels] = mod.num_inchannels]
                /\ stg_inchannels' = stg_refs'[Len(stg_refs')]
                /\ stg_i' = stg_i + 1
                /\ UNCHANGED <<stg_pc, stg_error>>
    /\ UNCHANGED stg_args
    /\ UNCHANGED notSTG

\* line 779
STG_return ==
    /\ stg_pc = "loop"
    /\ stg_i = stg_args.layer_config.NUM_MODULES
    /\ stg_pc' = "returned"
    /\ UNCHANGED <<stg_args, stg_i, stg_modules, stg_inchannels, stg_error, stg_heap,
                   stg_refs>>
    /\ UNCHANGED notSTG

STG_Next ==
    \/ STG_module
    \/ STG_return

InitSTG == STG_Init /\ HRM_Idle /\ GPV_Idle /\ NET_Idle /\ FWD_Idle /\ PE_Idle /\ AM_Idle /\ ENC_Idle /\ LYR_Idle /\ RUN_Idle

NextSTG == STG_Next

SpecSTG == InitSTG /\ [][NextSTG]_vars

(***************************************************************************)
(* C17. Of the modules _make_stage builds, only the last module of a stage *)
(* built with fusion=False has fusion disabled; so every stage-2 module of *)
(* TransActionH fuses and exactly the last stage-3 module does not.        *)
(***************************************************************************)
C17_FusionOnlyOffInLast ==
    stg_pc # "idle" =>
        /\ \A k \in 1..Len(stg_modules) :
               stg_modules[k].fusion =
                   ~(~stg_args.fusion /\ k = stg_args.layer_config.NUM_MODULES)
        /\ stg_args.caller = "stage2" =>
               \A k \in 1..Len(stg_modules) : stg_modules[k].fusion
        /\ (stg_args.caller = "stage3" /\ stg_pc = "returned") =>
               /\ ~stg_modules[Len(stg_modules)].fusion
               /\ \A k \in 1..(Len(stg_modules) - 1) : stg_modules[k].fusion
        /\ stg_pc = "returned" =>
               stg_modules = make_stage(stg_args.layer_config, stg_args.num_inchannels,
                                        stg_args.multi_scale_output,
                                        stg_args.fusion).modules

\* stage 3 of TransActionH with two modules: the first fuses, the last does not
C17_Witness ==
    /\ stg_pc = "returned"
    /\ stg_args.caller = "stage3"
    /\ Len(stg_modules) = 2
    /\ stg_modules[1].fusion
    /\ ~stg_modules[2].fusion

(***************************************************************************)
(* C18. For either value of multi_scale_output, _make_stage completes      *)
(* with exactly NUM_MODULES modules, each built with a defined             *)
(* multi_scale_output flag.                                                *)
(***************************************************************************)
C18_StageCompletes ==
    /\ stg_pc # "raised"
    /\ stg_pc = "returned" =>
           /\ Len(stg_modules) = stg_args.layer_config.NUM_MODULES
           /\ \A k \in 1..Len(stg_modules) : stg_modules[k].multi_scale_output \in BOOLEAN

(***************************************************************************)
(* TransformerEncoder.forward (lines 171-195) over layers cloned from one  *)
(* TransformerEncoderLayer (lines 159, 198-199).  A tensor is kept as the  *)
(* sizes of its dimensions before the last one, the layers it went         *)
(* through and the number of times the norm was applied to it.             *)
(***************************************************************************)
MaxLayers == 3

SeqLens == {1, 2, 3}

Tensor(dims) == [kind |-> "tensor", dims |-> dims, layers |-> <<>>, normed |-> 0]

\* the attention weights layer k returns
AttMap(k) == [layer |-> k, weights |-> TRUE]

\* row 1 of a layer's output taken for its attention weights
SliceMap(k) == [layer |-> k, weights |-> FALSE]

NoMap == [layer |-> 0, weights |-> FALSE]

\* lines 237-288: what TransformerEncoderLayer.forward of layer k can do on
\* src: self_attn needs a tensor; a [length, batch, d_model] input is
\* attended to, a [length, d_model] input is taken as unbatched or rejected
\* depending on the torch release and is rejected once pos has made the
\* query three-dimensional
layer_forward(k, return_atten_map, src, with_pos) ==
    LET raised == [error |-> "TypeError", kind |-> "none", src |-> src, att_map |-> NoMap]
        out    == [src EXCEPT !.layers = Append(@, k)]
        done   == [error |-> NoError,
                   kind |-> IF return_atten_map THEN "pair" ELSE "tensor",
                   src |-> out, att_map |-> AttMap(k)]
    IN  IF src.kind # "tensor" \/ Len(src.dims) = 0 THEN {raised}
        ELSE IF Len(src.dims) = 2 THEN {done}
        ELSE IF with_pos THEN {raised}
        ELSE {raised, done}

\* lines 178-184: what the loop body binds to output and att_map from the
\* value ret the layer returned
bind_layer_result(return_atten_map, ret, k) ==
    IF ret.error # NoError
    THEN [error |-> ret.error, output |-> ret.src, att_map |-> NoMap]
    ELSE IF ~return_atten_map
    THEN [error |-> NoError,
          output |-> [ret.src EXCEPT !.kind = ret.kind],
          att_map |-> NoMap]
    ELSE IF ret.kind = "pair"
    THEN [error |-> NoError, output |-> ret.src, att_map |-> ret.att_map]
    ELSE IF Head(ret.src.dims) = 2
    THEN [error |-> NoError,
          output |-> [ret.src EXCEPT !.dims = Tail(@)],
          att_map |-> SliceMap(k)]
    ELSE [error |-> "ValueError", output |-> ret.src, att_map |-> NoMap]

\* line 187
next_pos(pe_only_at_begin, with_pos) == IF pe_only_at_begin THEN FALSE ELSE with_pos

ENC_Init ==
    /\ enc_pc = "loop"
    /\ \E n \in 0..MaxLayers :
       \E norm \in BOOLEAN, at_begin \in BOOLEAN, ram \in BOOLEAN, layer_ram \in BOOLEAN :
       \E with_pos \in BOOLEAN :
       \E len \in SeqLens, bsz \in 1..MaxBatch :
           enc_args = [num_layers |-> n, norm |-> norm, pe_only_at_begin |-> at_begin,
                       return_atten_map |-> ram, layer_return_atten_map |-> layer_ram,
                       src |-> Tensor(<<len, bsz>>), pos |-> with_pos]
    /\ enc_output = enc_args.src
    /\ enc_pos = enc_args.pos
    /\ atten_maps_list = <<>>
    /\ enc_calls = <<>>
    /\ enc_result = Unset
    /\ enc_error = NoError

\* lines 177-187: one pass of `for layer in self.layers`
ENC_layer ==
    /\ enc_pc = "loop"
    /\ Len(enc_calls) < enc_args.num_layers
    /\ LET k == Len(enc_calls) + 1
       IN  /\ enc_calls' = Append(enc_calls, [layer |-> k, src |-> enc_output, pos |-> enc_pos])
           /\ \E ret \in layer_forward(k, enc_args.layer_return_atten_map, enc_output, enc_pos) :
              LET b == bind_layer_result(enc_args.return_atten_map, ret, k)
              IN  IF b.error # NoError
                  THEN /\ enc_error' = b.error
                       /\ enc_pc' = "raised"
                       /\ UNCHANGED <<enc_output, enc_pos, atten_maps_list>>
                  ELSE /\ enc_output' = b.output
                       /\ atten_maps_list' = IF enc_args.return_atten_map
                                             THEN Append(atten_maps_list, b.att_map)
                                             ELSE atten_maps_list
                       /\ enc_pos' = next_pos(enc_args.pe_only_at_begin, enc_pos)
                       /\ UNCHANGED <<enc_pc, enc_error>>
    /\ UNCHANGED <<enc_args, enc_result>>
    /\ UNCHANGED notENC

\* lines 189-190: LayerNorm takes a tensor
ENC_norm ==
    /\ enc_pc = "loop"
    /\ Len(enc_calls) = enc_args.num_layers
    /\ IF ~enc_args.norm
       THEN /\ enc_pc' = "normed"
            /\ UNCHANGED <<enc_output, enc_error>>
       ELSE IF enc_output.kind # "tensor"
       THEN /\ enc_error' = "TypeError"
            /\ enc_pc' = "raised"
            /\ UNCHANGED enc_output
       ELSE /\ enc_output' = [enc_output EXCEPT !.normed = @ + 1]
            /\ enc_pc' = "normed"
            /\ UNCHANGED enc_error
    /\ UNCHANGED <<enc_args, enc_pos, atten_maps_list, enc_calls, enc_result>>
    /\ UNCHANGED notENC

\* lines 192-195: torch.stack takes a non-empty list
ENC_return ==
    /\ enc_pc = "normed"
    /\ IF enc_args.return_atten_map /\ atten_maps_list = <<>>
       THEN /\ enc_error' = "RuntimeError"
            /\ enc_pc' = "raised"
            /\ UNCHANGED enc_result
       ELSE /\ enc_result' = [output |-> enc_output,
                              atten_maps |-> IF enc_args.return_atten_map
                                             THEN atten_maps_list ELSE <<>>]
            /\ enc_pc' = "returned"
            /\ UNCHANGED enc_error
    /\ UNCHANGED <<enc_args, enc_output, enc_pos, atten_maps_list, enc_calls>>
    /\ UNCHANGED notENC

ENC_Next ==
    \/ ENC_layer
    \/ ENC_norm
    \/ ENC_return

InitENC == ENC_Init /\ HRM_Idle /\ GPV_Idle /\ NET_Idle /\ FWD_Idle /\ PE_Idle /\ AM_Idle /\ STG_Idle /\ LYR_Idle /\ RUN_Idle

NextENC == ENC_Next

SpecENC == InitENC /\ [][NextENC]_vars

(***************************************************************************)
(* C20. TransformerEncoder.forward applies its num_layers layers in order, *)
(* each to the previous layer's output; pos is passed to every layer when  *)
(* pe_only_at_begin is false and to the first layer only when it is true;  *)
(* the norm, when given, is applied exactly once, after the last layer;    *)
(* with return_atten_map the call returns exactly one attention map per    *)
(* layer, in layer order.                                                  *)
(***************************************************************************)
RECURSIVE LayerRange(_)
LayerRange(n) == IF n = 0 THEN <<>> ELSE Append(LayerRange(n - 1), n)

C20_LayersInOrder ==
    \A k \in 1..Len(enc_calls) :
        /\ enc_calls[k].layer = k
        /\ enc_calls[k].src = [enc_args.src EXCEPT !.layers = LayerRange(k - 1)]
        /\ enc_calls[k].pos = (enc_args.pos /\ (k = 1 \/ ~enc_args.pe_only_at_begin))

C20_EncoderForward ==
    enc_pc # "idle" =>
        /\ enc_pc # "raised"
        /\ C20_LayersInOrder
        /\ enc_pc = "returned" =>
               /\ Len(enc_calls) = enc_args.num_layers
               /\ enc_result.output =
                      [enc_args.src EXCEPT !.layers = LayerRange(enc_args.num_layers),
                                           !.normed = IF enc_args.norm THEN 1 ELSE 0]
               /\ enc_args.return_atten_map =>
                      enc_result.atten_maps =
                          [k \in 1..enc_args.num_layers |-> AttMap(k)]


(***************************************************************************)
(* TransformerEncoderLayer (lines 213-288): construction with an           *)
(* activation name, then one forward call.  A tensor is kept as the        *)
(* sequence of operations applied to src, "pos" standing for `+ pos`.      *)
(***************************************************************************)
ActivationNames == {"relu", "gelu", "glu", "tanh", "RELU", ""}

\* mutation: 'glu' is not accepted
get_activation_fn_NoGlu(activation) ==
    IF activation = "relu" THEN [error |-> NoError, fn |-> "F.relu"]
    ELSE IF activation = "gelu" THEN [error |-> NoError, fn |-> "F.gelu"]
    ELSE [error |-> "RuntimeError", fn |-> ""]

\* lines 202-210
get_activation_fn(activation) ==
    IF activation = "relu" THEN [error |-> NoError, fn |-> "F.relu"]
    ELSE IF activation = "gelu" THEN [error |-> NoError, fn |-> "F.gelu"]
    ELSE IF activation = "glu" THEN [error |-> NoError, fn |-> "F.glu"]
    ELSE [error |-> "RuntimeError", fn |-> ""]

\* mutation: the embedding reaches the tensor itself
layer_with_pos_embed_Always(tensor, with_pos) == Append(tensor, "pos")

\* lines 234-235: with_pos_embed(tensor, pos)
layer_with_pos_embed(tensor, with_pos) ==
    IF ~with_pos THEN tensor ELSE Append(tensor, "pos")

\* self.self_attn(q, k, value=..., ...)
SelfAttn(q, k, value) == [query |-> q, key |-> k, value |-> value]

\* linear2(dropout(activation(linear1(x)))): F.glu halves the width linear1
\* produced, which linear2 does not accept
feed_forward(fn, x) ==
    IF fn = "F.glu" THEN [error |-> "RuntimeError", out |-> x]
    ELSE [error |-> NoError, out |-> x \o <<"linear1", fn, "dropout", "linear2">>]

\* lines 237-258
forward_post(fn, return_atten_map, src, with_pos) ==
    LET q    == layer_with_pos_embed(src, with_pos)
        attn == SelfAttn(q, q, src)
        src1 == <<"self_attn", "dropout1", "add", "norm1">>
        ff   == feed_forward(fn, src1)
    IN  [error |-> ff.error, attn |-> attn,
         residual |-> <<src, src1>>,
         out |-> <<"self_attn", "dropout1", "add", "norm1", "feed_forward", "dropout2",
                   "add", "norm2">>,
         att_map |-> return_atten_map]

\* lines 260-281
forward_pre(fn, return_atten_map, src, with_pos) ==
    LET src2 == Append(src, "norm1")
        q    == layer_with_pos_embed(src2, with_pos)
        attn == SelfAttn(q, q, src)
        src1 == <<"self_attn", "dropout1", "add">>
        ff   == feed_forward(fn, Append(src1, "norm2"))
    IN  [error |-> ff.error, attn |-> attn,
         residual |-> <<src, src1>>,
         out |-> <<"self_attn", "dropout1", "add", "norm2", "feed_forward", "dropout2",
                   "add">>,
         att_map |-> return_atten_map]

LYR_Init ==
    /\ lyr_pc = "init"
    /\ \E activation \in ActivationNames :
       \E normalize_before \in BOOLEAN, ram \in BOOLEAN, with_pos \in BOOLEAN :
           lyr_args = [activation |-> activation, normalize_before |-> normalize_before,
                       return_atten_map |-> ram, pos |-> with_pos]
    /\ lyr_activation = ""
    /\ lyr_path = ""
    /\ lyr_attn = Unset
    /\ lyr_residual = <<>>
    /\ lyr_result = Unset
    /\ lyr_error = NoError

\* lines 216-232: TransformerEncoderLayer.__init__
LYR_construct ==
    /\ lyr_pc = "init"
    /\ LET a == get_activation_fn(lyr_args.activation)
       IN  IF a.error # NoError
           THEN /\ lyr_error' = a.error
                /\ lyr_pc' = "raised"
                /\ UNCHANGED lyr_activation
           ELSE /\ lyr_activation' = a.fn
                /\ lyr_pc' = "built"
                /\ UNCHANGED lyr_error
    /\ UNCHANGED <<lyr_args, lyr_path, lyr_attn, lyr_residual, lyr_result>>
    /\ UNCHANGED notLYR

\* lines 283-288: forward chooses the variant
LYR_forward ==
    /\ lyr_pc = "built"
    /\ lyr_path' = IF lyr_args.normalize_before THEN "forward_pre" ELSE "forward_post"
    /\ lyr_pc' = "forward"
    /\ UNCHANGED <<lyr_args, lyr_activation, lyr_attn, lyr_residual, lyr_result, lyr_error>>
    /\ UNCHANGED notLYR

\* the variant chosen runs to its return or to the exception
LYR_Run(r) ==
    /\ lyr_attn' = r.attn
    /\ lyr_residual' = r.residual
    /\ IF r.error # NoError
       THEN /\ lyr_error' = r.error
            /\ lyr_pc' = "raised"
            /\ UNCHANGED lyr_result
       ELSE /\ lyr_result' = [src |-> r.out, att_map |-> r.att_map]
            /\ lyr_pc' = "returned"
            /\ UNCHANGED lyr_error
    /\ UNCHANGED <<lyr_args, lyr_activation, lyr_path>>
    /\ UNCHANGED notLYR

LYR_forward_post ==
    /\ lyr_pc = "forward"
    /\ lyr_path = "forward_post"
    /\ LYR_Run(forward_post(lyr_activation, lyr_args.return_atten_map, <<>>, lyr_args.pos))

LYR_forward_pre ==
    /\ lyr_pc = "forward"
    /\ lyr_path = "forward_pre"
    /\ LYR_Run(forward_pre(lyr_activation, lyr_args.return_atten_map, <<>>, lyr_args.pos))

LYR_Next ==
    \/ LYR_construct
    \/ LYR_forward
    \/ LYR_forward_post
    \/ LYR_forward_pre

InitLYR == LYR_Init /\ HRM_Idle /\ GPV_Idle /\ NET_Idle /\ FWD_Idle /\ PE_Idle /\ AM_Idle /\ STG_Idle /\ ENC_Idle /\ RUN_Idle

NextLYR == LYR_Next

SpecLYR == InitLYR /\ [][NextLYR]_vars

(***************************************************************************)
(* C21. In a TransformerEncoderLayer pos is added only to the query and    *)
(* the key of the attention; the value and the residual paths carry the    *)
(* features without it, and with pos None query and key are the features   *)
(* unchanged; normalize_before selects forward_pre, otherwise forward_post *)
(* runs.                                                                   *)
(***************************************************************************)
HasPos(tensor) == \E n \in 1..Len(tensor) : tensor[n] = "pos"

WithoutPos(tensor) == SelectSeq(tensor, LAMBDA op : op # "pos")

C21_Attended == lyr_pc \in {"returned", "raised"} /\ lyr_path # ""

C21_PosOnQueryAndKey ==
    /\ lyr_path # "" =>
           lyr_path = IF lyr_args.normalize_before THEN "forward_pre" ELSE "forward_post"
    /\ C21_Attended =>
           /\ lyr_attn.query = lyr_attn.key
           /\ HasPos(lyr_attn.query) = lyr_args.pos
           /\ WithoutPos(lyr_attn.query) =
                  (IF lyr_args.normalize_before THEN <<"norm1">> ELSE <<>>)
           /\ ~HasPos(lyr_attn.value)
           /\ \A n \in 1..Len(lyr_residual) : ~HasPos(lyr_residual[n])
           /\ lyr_pc = "returned" => ~HasPos(lyr_result.src)

\* a pre-norm layer called with an embedding
C21_Witness ==
    /\ lyr_pc = "returned"
    /\ lyr_args.normalize_before
    /\ lyr_args.pos
    /\ lyr_attn = SelfAttn(<<"norm1", "pos">>, <<"norm1", "pos">>, <<>>)

(***************************************************************************)
(* C27. _get_activation_fn returns an activation function for exactly the  *)
(* names 'relu', 'gelu' and 'glu' and raises RuntimeError for every other  *)
(* string.                                                                 *)
(***************************************************************************)
C27_ActivationNames ==
    lyr_pc \notin {"idle", "init"} =>
        IF lyr_args.activation \in {"relu", "gelu", "glu"}
        THEN /\ lyr_activation \in {"F.relu", "F.gelu", "F.glu"}
             /\ lyr_activation = "F." \o lyr_args.activation
             /\ lyr_pc = "raised" => lyr_path # ""
        ELSE /\ lyr_pc = "raised"
             /\ lyr_error = "RuntimeError"
             /\ lyr_activation = ""

\* the constructor was given 'tanh' and _get_activation_fn raised
C27_Witness ==
    /\ lyr_pc = "raised"
    /\ lyr_args.activation = "tanh"
    /\ lyr_path = ""
    /\ lyr_error = "RuntimeError"

(***************************************************************************)
(* C26. init_weights selects a checkpoint entry exactly when (the first    *)
(* dot-separated component of its name is in PRETRAINED_LAYERS and the     *)
(* name exists in the model's state dict) or PRETRAINED_LAYERS[0] is '*';  *)
(* with '*' every entry is selected, whether or not the model has the      *)
(* name; the selected entries are the ones load_state_dict is given.       *)
(***************************************************************************)
C26_Loaded == net_pc = "done" /\ pretrained \in files

C26_Star == pretrained_layers # <<>> /\ pretrained_layers[1] = "*"

C26_SelectedEntries ==
    C26_Loaded =>
        /\ \A name \in pretrained_state_dict :
               name \in loaded_state_dict <=>
                   \/ name[1] \in Elems(pretrained_layers) /\ name \in ModelNames
                   \/ C26_Star
        /\ loaded_state_dict \subseteq pretrained_state_dict
        /\ C26_Star => loaded_state_dict = pretrained_state_dict
        /\ \A name \in ModelNames :
               state_dict[name] = "pretrained" <=> name \in loaded_state_dict

\* with ['*'] an entry the model lacks is selected next to one it has
C26_Witness ==
    /\ C26_Loaded
    /\ pretrained_layers = <<"*">>
    /\ <<"fc", "weight">> \in loaded_state_dict
    /\ <<"conv1", "weight">> \in loaded_state_dict
    /\ state_dict[<<"conv1", "weight">>] = "pretrained"

(***************************************************************************)
(* C28. After every module built by _make_stage the shared channel list    *)
(* holds NUM_CHANNELS[i] * block.expansion for every branch i, and the     *)
(* list returned is that same list; in the two stages of TransActionH no   *)
(* branch's first block gets a channel-adapting downsample, because the    *)
(* list passed in already holds these values.                              *)
(***************************************************************************)
C28_ChannelListInvariant ==
    (stg_pc # "idle" /\ stg_modules # <<>>) =>
        /\ stg_heap[stg_inchannels] = stage_channels(stg_args.layer_config)
        /\ stg_inchannels = 1
        /\ \A k \in 1..Len(stg_refs) : stg_refs[k] = stg_inchannels
        /\ \A k \in 1..Len(stg_modules) :
               stg_modules[k].num_inchannels = stage_channels(stg_args.layer_config)
        /\ stg_args.caller \in {"stage2", "stage3"} =>
               /\ stg_args.num_inchannels = stage_channels(stg_args.layer_config)
               /\ \A k \in 1..Len(stg_modules) :
                      \A i \in 1..stg_args.layer_config.NUM_BRANCHES :
                          stg_modules[k].branches[i][1].downsample = None

\* a stage of Bottleneck blocks called with 256 channels per branch: the
\* first module adapts the widths, and the list returned is the caller's
C28_Witness ==
    /\ stg_pc = "returned"
    /\ stg_args.caller = "direct"
    /\ stg_args.layer_config.BLOCK = "BOTTLENECK"
    /\ stg_args.num_inchannels = <<256, 256>>
    /\ Len(stg_modules) = 2
    /\ stg_heap[stg_inchannels] = <<192, 384>>
    /\ stg_modules[1].branches[1][1].downsample # None
    /\ stg_modules[2].branches[1][1].downsample = None

(***************************************************************************)
(* The loops of core/function.py: train, train_resnet, train_transaction,  *)
(* validate, validate_resnet and validate_transaction, one step per call   *)
(* the loop body makes.  A batch is its number of images and the kind of   *)
(* output the model returns for it: 0 for a tensor, n >= 1 for a list of n *)
(* tensors.  The loader of a validation run holds the whole dataset.       *)
(***************************************************************************)
MaxLoaderLen == 2

TrainFunctions == {"train", "train_resnet", "train_transaction"}

ValidateFunctions == {"validate", "validate_resnet", "validate_transaction"}

LoaderBatches == [size : {1, 2}, outputs : {0, 1, 2}]

Loaders == UNION {[1..n -> LoaderBatches] : n \in 0..MaxLoaderLen}

RECURSIVE SumSizes(_)
SumSizes(loader) ==
    IF loader = <<>> THEN 0 ELSE Head(loader).size + SumSizes(Tail(loader))

\* writer_dict=None, or the dict with its two counters
NoWriter == [none |-> TRUE, train_global_steps |-> 0, valid_global_steps |-> 0]

WriterDict(t, v) == [none |-> FALSE, train_global_steps |-> t, valid_global_steps |-> v]

\* the batch whose output the local `output` (train, train_resnet, validate,
\* validate_resnet) or `output1` (train_transaction, validate_transaction)
\* holds after the isinstance branch of batch `number`, given what it held;
\* 0 stands for an unbound local
\* lines 113-119, 182-188, 259-269, 362-365, 504-507, 592-595
bound_output(fn, outputs, number, held) ==
    IF outputs = 0 THEN number
    ELSE IF fn \in {"train", "train_resnet"} THEN (IF outputs >= 2 THEN number ELSE held)
    ELSE IF fn \in {"validate", "validate_resnet"} THEN number
    ELSE held

\* mutation: optimizer.step() is called before loss.backward()
Positions_StepFirst(fn) ==
    IF fn \in TrainFunctions
    THEN <<"forward", "loss", "zero_grad", "step", "backward", "metrics", "log">>
    ELSE <<"forward", "loss", "metrics", "store", "log">>

\* the calls of one pass of the loop body, in the order of the source lines
\* (108-155, 178-225, 255-324; 357-436, 502-541, 590-636)
Positions(fn) ==
    IF fn \in TrainFunctions
    THEN <<"forward", "loss", "zero_grad", "backward", "step", "metrics", "log">>
    ELSE <<"forward", "loss", "metrics", "store", "log">>

\* the call that follows the call p
After(fn, p) ==
    LET ps == Positions(fn)
        k == CHOOSE n \in 1..Len(ps) : ps[n] = p
    IN  ps[k + 1]

\* the dict the caller passes
InitialWriter == WriterDict(3, 5)

\* mutation: the counter moves with every batch
print_now_EveryBatch(i, print_freq) == TRUE

\* lines 139, 209, 306: i % config.PRINT_FREQ == 0
print_now(i, print_freq) == i % print_freq = 0

RUN_Init ==
    /\ run_pc = "call"
    /\ run_fn \in TrainFunctions \cup ValidateFunctions
    /\ run_cfg \in [PRINT_FREQ : {1, 2}, FLIP_TEST : BOOLEAN]
    /\ run_cfg.FLIP_TEST => run_fn = "validate"
    /\ run_loader \in Loaders
    /\ writer_dict \in {NoWriter, InitialWriter}
    \* the training functions take writer_dict as a required dict
    /\ run_fn \in TrainFunctions => ~writer_dict.none
    /\ model_mode = "unset"
    /\ run_i = 0
    /\ run_events = <<>>
    /\ run_output = 0
    /\ run_used = 0
    /\ run_losses = Unset
    /\ run_acc = Unset
    /\ val_idx = 0
    /\ all_preds = <<>>
    /\ all_boxes = <<>>
    /\ scalars = <<>>
    /\ run_error = NoError

RUN_Batch == run_loader[run_i + 1]

RUN_Raise(err) ==
    /\ run_error' = err
    /\ run_pc' = "raised"

\* lines 94-100, 164-170, 234-241, 333-349, 483-494, 566-581: the meters,
\* model.train() or model.eval(), and validate's arrays of num_samples rows
RUN_enter ==
    /\ run_pc = "call"
    /\ run_losses' = meter_reset
    /\ run_acc' = meter_reset
    /\ model_mode' = IF run_fn \in TrainFunctions THEN "train" ELSE "eval"
    /\ val_idx' = 0
    /\ all_preds' = IF run_fn = "validate"
                    THEN [r \in 1..SumSizes(run_loader) |-> <<>>] ELSE <<>>
    /\ all_boxes' = IF run_fn = "validate"
                    THEN [r \in 1..SumSizes(run_loader) |-> <<>>] ELSE <<>>
    /\ run_pc' = "loop"
    /\ UNCHANGED <<run_fn, run_cfg, run_loader, writer_dict, run_i, run_events, run_output,
                   run_used, scalars, run_error>>
    /\ UNCHANGED notRUN

\* `for i, (...) in enumerate(loader)`: the next batch, and data_time.update
\* in the training functions (lines 103-105, 173-175, 244-246)
RUN_next_batch ==
    /\ run_pc = "loop"
    /\ run_i < Len(run_loader)
    /\ run_events' = IF run_fn \in TrainFunctions THEN <<"data_time.update">> ELSE <<>>
    /\ run_pc' = Positions(run_fn)[1]
    /\ UNCHANGED <<run_fn, run_cfg, run_loader, writer_dict, model_mode, run_i, run_output,
                   run_used, run_losses, run_acc, val_idx, all_preds, all_boxes, scalars,
                   run_error>>
    /\ UNCHANGED notRUN

\* model(input) (lines 108, 178, 255, 357, 502, 590)
RUN_forward ==
    /\ run_pc = "forward"
    /\ run_events' = Append(run_events, "forward")
    /\ run_pc' = After(run_fn, "forward")
    /\ UNCHANGED <<run_fn, run_cfg, run_loader, writer_dict, model_mode, run_i, run_output,
                   run_used, run_losses, run_acc, val_idx, all_preds, all_boxes, scalars,
                   run_error>>
    /\ UNCHANGED notRUN

\* the isinstance branch and criterion(...) (lines 113-119, 182-188, 259-269,
\* 362-391, 504-511, 592-600); validate runs the model again for FLIP_TEST;
\* validate_transaction hands output1 to criterion
RUN_loss ==
    /\ run_pc = "loss"
    /\ LET held == bound_output(run_fn, RUN_Batch.outputs, run_i + 1, run_output)
       IN  /\ run_output' = held
           /\ IF run_fn = "validate_transaction" /\ held = 0
              THEN /\ RUN_Raise("UnboundLocalError")
                   /\ UNCHANGED run_events
              ELSE /\ run_events' = run_events
                                    \o (IF run_cfg.FLIP_TEST THEN <<"forward">> ELSE <<>>)
                                    \o <<"loss">>
                   /\ run_pc' = After(run_fn, "loss")
                   /\ UNCHANGED run_error
    /\ UNCHANGED <<run_fn, run_cfg, run_loader, writer_dict, model_mode, run_i, run_used,
                   run_losses, run_acc, val_idx, all_preds, all_boxes, scalars>>
    /\ UNCHANGED notRUN

\* optimizer.zero_grad() (lines 124, 193, 274)
RUN_zero_grad ==
    /\ run_pc = "zero_grad"
    /\ run_events' = Append(run_events, "zero_grad")
    /\ run_pc' = After(run_fn, "zero_grad")
    /\ UNCHANGED <<run_fn, run_cfg, run_loader, writer_dict, model_mode, run_i, run_output,
                   run_used, run_losses, run_acc, val_idx, all_preds, all_boxes, scalars,
                   run_error>>
    /\ UNCHANGED notRUN

\* loss.backward() (lines 125, 194, 275)
RUN_backward ==
    /\ run_pc = "backward"
    /\ run_events' = Append(run_events, "backward")
    /\ run_pc' = After(run_fn, "backward")
    /\ UNCHANGED <<run_fn, run_cfg, run_loader, writer_dict, model_mode, run_i, run_output,
                   run_used, run_losses, run_acc, val_idx, all_preds, all_boxes, scalars,
                   run_error>>
    /\ UNCHANGED notRUN

\* optimizer.step() (lines 126, 195, 277)
RUN_step ==
    /\ run_pc = "step"
    /\ run_events' = Append(run_events, "step")
    /\ run_pc' = After(run_fn, "step")
    /\ UNCHANGED <<run_fn, run_cfg, run_loader, writer_dict, model_mode, run_i, run_output,
                   run_used, run_losses, run_acc, val_idx, all_preds, all_boxes, scalars,
                   run_error>>
    /\ UNCHANGED notRUN

\* losses.update, the accuracy of output / output1, acc.update and
\* batch_time.update (lines 129-136, 198-206, 291-303, 395-402, 515-522,
\* 608-618)
RUN_metrics ==
    /\ run_pc = "metrics"
    /\ run_losses' = meter_update(run_losses, 1, RUN_Batch.size)
    /\ IF run_output = 0
       THEN /\ RUN_Raise("UnboundLocalError")
            /\ run_events' = Append(run_events, "losses.update")
            /\ UNCHANGED <<run_acc, run_used>>
       ELSE /\ run_used' = run_output
            /\ run_acc' = meter_update(run_acc, 1, RUN_Batch.size)
            /\ run_events' = run_events \o <<"losses.update", "acc.update",
                                             "batch_time.update">>
            /\ run_pc' = After(run_fn, "metrics")
            /\ UNCHANGED run_error
    /\ UNCHANGED <<run_fn, run_cfg, run_loader, writer_dict, model_mode, run_i, run_output,
                   val_idx, all_preds, all_boxes, scalars>>
    /\ UNCHANGED notRUN

\* mutation: the slice starts one row early
write_rows_OneEarly(array, first, num_images, number) ==
    [r \in DOMAIN array |->
        IF first <= r /\ r <= first + num_images THEN Append(array[r], number)
        ELSE array[r]]

\* the rows idx .. idx + num_images - 1 of an array, written by batch number
write_rows(array, first, num_images, number) ==
    [r \in DOMAIN array |->
        IF first < r /\ r <= first + num_images THEN Append(array[r], number)
        ELSE array[r]]

\* lines 412-418: validate fills all_preds and all_boxes; lines 421, 529,
\* 625: idx += num_images
RUN_store ==
    /\ run_pc = "store"
    /\ all_preds' = IF run_fn = "validate"
                    THEN write_rows(all_preds, val_idx, RUN_Batch.size, run_i + 1)
                    ELSE all_preds
    /\ all_boxes' = IF run_fn = "validate"
                    THEN write_rows(all_boxes, val_idx, RUN_Batch.size, run_i + 1)
                    ELSE all_boxes
    /\ val_idx' = val_idx + RUN_Batch.size
    /\ run_pc' = After(run_fn, "store")
    /\ UNCHANGED <<run_fn, run_cfg, run_loader, writer_dict, model_mode, run_i, run_events,
                   run_output, run_used, run_losses, run_acc, scalars, run_error>>
    /\ UNCHANGED notRUN

\* lines 139-155, 209-225, 306-324, 423-436, 531-541, 627-636: the message
\* every PRINT_FREQ batches, with the two scalars and the counter in the
\* training functions; then the next pass of the loop
RUN_log ==
    /\ run_pc = "log"
    /\ IF print_now(run_i, run_cfg.PRINT_FREQ) /\ run_fn \in TrainFunctions
       THEN /\ scalars' = scalars \o
                  <<[tag |-> "train_loss", step |-> writer_dict.train_global_steps],
                    [tag |-> "train_acc", step |-> writer_dict.train_global_steps]>>
            /\ writer_dict' = [writer_dict EXCEPT !.train_global_steps = @ + 1]
       ELSE UNCHANGED <<scalars, writer_dict>>
    /\ run_events' = Append(run_events, "end")
    /\ run_i' = run_i + 1
    /\ run_pc' = "loop"
    /\ UNCHANGED <<run_fn, run_cfg, run_loader, model_mode, run_output, run_used,
                   run_losses, run_acc, val_idx, all_preds, all_boxes, run_error>>
    /\ UNCHANGED notRUN

\* after the loop: the training functions return; the validation functions
\* write their scalars when writer_dict is given (lines 450-476, 545-559,
\* 641-660) and return
RUN_finish ==
    /\ run_pc = "loop"
    /\ run_i = Len(run_loader)
    /\ IF run_fn \in ValidateFunctions /\ ~writer_dict.none
       THEN /\ scalars' = scalars \o
                  <<[tag |-> "valid_loss", step |-> writer_dict.valid_global_steps],
                    [tag |-> "valid_acc", step |-> writer_dict.valid_global_steps]>>
                  \o (IF run_fn = "validate"
                      THEN <<[tag |-> "valid", step |-> writer_dict.valid_global_steps]>>
                      ELSE <<>>)
            /\ writer_dict' = [writer_dict EXCEPT !.valid_global_steps = @ + 1]
       ELSE UNCHANGED <<scalars, writer_dict>>
    /\ run_pc' = "returned"
    /\ UNCHANGED <<run_fn, run_cfg, run_loader, model_mode, run_i, run_events, run_output,
                   run_used, run_losses, run_acc, val_idx, all_preds, all_boxes, run_error>>
    /\ UNCHANGED notRUN

RUN_Next ==
    \/ RUN_enter
    \/ RUN_next_batch
    \/ RUN_forward
    \/ RUN_loss
    \/ RUN_zero_grad
    \/ RUN_backward
    \/ RUN_step
    \/ RUN_metrics
    \/ RUN_store
    \/ RUN_log
    \/ RUN_finish

InitRUN == RUN_Init /\ HRM_Idle /\ GPV_Idle /\ NET_Idle /\ FWD_Idle /\ PE_Idle /\ AM_Idle /\ STG_Idle /\ ENC_Idle /\ LYR_Idle

NextRUN == RUN_Next

SpecRUN == InitRUN /\ [][NextRUN]_vars

(***************************************************************************)
(* C22. The training functions switch the model to train mode before the   *)
(* first batch and make, for every batch, the calls forward, loss,         *)
(* zero_grad, backward, step, metric update in this order, each once; the  *)
(* validation functions switch the model to eval mode before the first     *)
(* batch and never call the optimizer.                                     *)
(***************************************************************************)
IsPrefix(s, t) == Len(s) <= Len(t) /\ \A k \in 1..Len(s) : s[k] = t[k]

\* the calls the claim is about, without the timing meters
C22_Steps == SelectSeq(run_events,
                 LAMBDA e : e \notin {"data_time.update", "batch_time.update", "end"})

C22_BatchOrder ==
    <<"forward", "loss", "zero_grad", "backward", "step", "losses.update", "acc.update">>

C22_BatchDone == run_events # <<>> /\ run_events[Len(run_events)] = "end"

C22_StepOrder ==
    run_pc \notin {"idle", "call"} =>
        /\ model_mode = IF run_fn \in TrainFunctions THEN "train" ELSE "eval"
        /\ run_fn \in TrainFunctions =>
               /\ IsPrefix(C22_Steps, C22_BatchOrder)
               /\ C22_BatchDone => C22_Steps = C22_BatchOrder
        /\ run_fn \in ValidateFunctions =>
               \A k \in 1..Len(run_events) :
                   run_events[k] \notin {"zero_grad", "backward", "step"}

\* train_transaction has finished its second batch
C22_Witness ==
    /\ run_fn = "train_transaction"
    /\ run_pc = "loop"
    /\ run_i = 2
    /\ model_mode = "train"
    /\ C22_Steps = C22_BatchOrder

(***************************************************************************)
(* C23. train_transaction and validate_transaction complete a batch (loss, *)
(* accuracy of this batch's output, meters) whether the model's action     *)
(* output is one tensor or a list of tensors, and train completes a batch  *)
(* for a list of outputs of any length >= 1.                               *)
(***************************************************************************)
C23_BatchCompletes ==
    run_fn \in {"train", "train_transaction", "validate_transaction"} =>
        /\ run_pc # "raised"
        /\ C22_BatchDone => run_used = run_i

(***************************************************************************)
(* C24. writer_dict['train_global_steps'] goes up by one with each batch   *)
(* whose index is a multiple of PRINT_FREQ and stays with every other      *)
(* batch; writer_dict['valid_global_steps'] goes up by one per validation  *)
(* call with a writer_dict, after the scalars were written with the old    *)
(* value; without a writer_dict nothing is written.                        *)
(***************************************************************************)
\* the batches with index < n whose index is a multiple of print_freq
C24_Printed(n, print_freq) == (n + print_freq - 1) \div print_freq

C24_GlobalSteps ==
    run_pc \notin {"idle", "call"} =>
        /\ run_fn \in TrainFunctions =>
               /\ writer_dict.train_global_steps =
                      InitialWriter.train_global_steps + C24_Printed(run_i, run_cfg.PRINT_FREQ)
               /\ writer_dict.valid_global_steps = InitialWriter.valid_global_steps
               /\ Len(scalars) = 2 * C24_Printed(run_i, run_cfg.PRINT_FREQ)
               /\ \A k \in 1..Len(scalars) :
                      scalars[k].step = InitialWriter.train_global_steps + ((k - 1) \div 2)
        /\ (run_fn \in ValidateFunctions /\ ~writer_dict.none) =>
               /\ writer_dict.train_global_steps = InitialWriter.train_global_steps
               /\ writer_dict.valid_global_steps =
                      InitialWriter.valid_global_steps + (IF run_pc = "returned" THEN 1 ELSE 0)
               /\ (scalars # <<>>) = (run_pc = "returned")
               /\ \A k \in 1..Len(scalars) :
                      scalars[k].step = InitialWriter.valid_global_steps
        /\ writer_dict.none => writer_dict = NoWriter /\ scalars = <<>>

\* with PRINT_FREQ = 2, batch 0 moved the counter and batch 1 did not
C24_Witness ==
    /\ run_fn = "train"
    /\ run_cfg.PRINT_FREQ = 2
    /\ run_pc = "loop"
    /\ run_i = 2
    /\ writer_dict.train_global_steps = InitialWriter.train_global_steps + 1
    /\ Len(scalars) = 2

(***************************************************************************)
(* C25. In validate, after any number of batches idx is the number of      *)
(* images processed so far; each batch writes exactly the rows             *)
(* [idx, idx + batch size) of all_preds and all_boxes, no row is written   *)
(* twice, and the rows of batches not yet processed keep their zeros.      *)
(***************************************************************************)
\* the batches whose rows are stored
C25_Stored == run_i + (IF run_pc = "log" THEN 1 ELSE 0)

\* the batch row r (counted from 1) belongs to
C25_BatchOf(r) ==
    CHOOSE b \in 1..Len(run_loader) :
        /\ SumSizes(SubSeq(run_loader, 1, b - 1)) < r
        /\ r <= SumSizes(SubSeq(run_loader, 1, b))

C25_RowsWritten ==
    (run_fn = "validate" /\ run_pc \notin {"idle", "call", "raised"}) =>
        /\ val_idx = SumSizes(SubSeq(run_loader, 1, C25_Stored))
        /\ \A r \in 1..SumSizes(run_loader) :
               /\ all_preds[r] = IF r <= val_idx THEN <<C25_BatchOf(r)>> ELSE <<>>
               /\ all_boxes[r] = all_preds[r]

\* a batch of two images and a batch of one, both stored
C25_Witness ==
    /\ run_fn = "validate"
    /\ run_pc = "returned"
    /\ val_idx = 3
    /\ all_preds = <<<<1>>, <<1>>, <<2>>>>
    /\ all_boxes = <<<<1>>, <<1>>, <<2>>>>

(***************************************************************************)
(* C2. For every sample and every pair of limb joints (i, j), the limb     *)
(* vector stored for the pair is the zero vector unless the confidence of  *)
(* joint i and the confidence of joint j are both >= 0.4.                  *)
(***************************************************************************)
\* the slot idx has when the loops reach the list positions p < q
PairSlot(p, q) == p * (NumLimbJoints - 1) - ((p * (p - 1)) \div 2) + (q - p - 1)

C2_ZeroUnlessBothConfident ==
    \A b \in DOMAIN vectors :
        \A p \in 0..(NumLimbJoints - 2) :
            \A q \in (p + 1)..(NumLimbJoints - 1) :
                vectors[b][PairSlot(p, q)] # <<0, 0>> =>
                    /\ maxvals[b][joints_of_limbs[p]] >= ConfThreshold
                    /\ maxvals[b][joints_of_limbs[q]] >= ConfThreshold

(***************************************************************************)
(* C9. Every sample has exactly 78 limb-vector slots, one per unordered    *)
(* pair of the 13 limb joints, and exactly 3003 angle entries, one per     *)
(* unordered pair of the 78 vectors; idx stays within the slots in both    *)
(* loops, no slot is visited twice, after a sample's loops every slot was  *)
(* visited once, and 3003 is the input width of the skeleton head.         *)
(***************************************************************************)
\* the slots of row b that idx has named so far: 0..C9_VecSeen(b), 0..C9_AngSeen(b)
C9_VecSeen(b) ==
    IF b < batch \/ (b = batch /\ gpv_pc = "angles") THEN NumVectors - 1
    ELSE IF b = batch /\ gpv_pc \in {"vectors", "IndexError"} THEN idx
    ELSE -1

C9_AngSeen(b) ==
    IF b < batch THEN NumAngles - 1
    ELSE IF b = batch /\ gpv_pc \in {"angles", "IndexError"} THEN idx
    ELSE -1

C9_SlotsAndIndex ==
    /\ gpv_pc # "IndexError"
    /\ NumVectors = 78 /\ NumVectors = (NumLimbJoints * (NumLimbJoints - 1)) \div 2
    /\ NumAngles = (NumVectors * (NumVectors - 1)) \div 2
    /\ NumAngles = SkeletonInFeatures
    /\ \A b \in DOMAIN vectors :
         /\ DOMAIN vectors[b] = 0..(NumVectors - 1)
         /\ DOMAIN angles[b] = 0..(NumAngles - 1)
         /\ LET seen == C9_VecSeen(b)
            IN  \A k \in 0..(NumVectors - 1) :
                    vec_visits[b][k] = IF k <= seen THEN 1 ELSE 0
         /\ LET seen == C9_AngSeen(b)
                row == angle_visits[b]
            IN  \A k \in 0..(NumAngles - 1) : row[k] = IF k <= seen THEN 1 ELSE 0
    /\ gpv_pc = "vectors" => idx \in -1..(NumVectors - 1)
    /\ gpv_pc = "angles" => idx \in -1..(NumAngles - 1)
    /\ (gpv_pc = "vectors" /\ gpv_n = NumLimbJoints - 1) => idx = NumVectors - 1
    /\ (gpv_pc = "angles" /\ gpv_n = NumVectors - 1) => idx = NumAngles - 1

\* a batch of two samples went through both loops, the second with a non-zero angle
C9_Witness ==
    /\ gpv_pc = "done"
    /\ bs = 2 /\ batch = 2
    /\ angle_visits[1][NumAngles - 1] = 1
    /\ vec_visits[1][NumVectors - 1] = 1
    /\ \E k \in DOMAIN angles[1] : angles[1][k] # 0

====
